---- MODULE Spec2Model ----
(***************************************************************************)
(* secure-pdf: the capability token store (lib/nonce-store.js), the byte   *)
(* obfuscation codec and the access gateway (lib/controllers.js) and the   *)
(* document store (lib/pdf-handler.js), as a state machine.                *)
(*                                                                         *)
(* Time is Date.now() in milliseconds.  Node runs every handler to its     *)
(* first await without interleaving, so each action below is one           *)
(* synchronous segment of the source.                                      *)
(***************************************************************************)
EXTENDS Integers, Sequences, FiniteSets, TLC

\* ------------------------------------------------------------------ bounds
\* The codec's input buffers are filled from the seeds 0..MaxSeed.
MaxSeed == 2
\* How many requests reach the pdf-data endpoint in one behaviour.
MaxReqs == 2
\* How many token ids uuidv4() hands out in one behaviour.
MaxTokens == 2
\* The clock is observed every TickMs milliseconds, MaxTicks times.
MaxTicks == 3
TickMs == 30 * 1000
MaxTime == MaxTicks * TickMs
\* The longest filename handed to resolveFilePath on its own.
MaxNameLen == 4
\* Where the derivative cache is followed, the clock is observed every
\* CoarseTickMs milliseconds, MaxCoarseTicks times.
MaxCoarseTicks == 3
\* Where the life of abandoned tokens is followed, the clock is observed
\* MaxLifeTicks times.
MaxLifeTicks == 6
\* The most pages of a source document handed to the derivation on its own.
MaxPages == 4

\* --------------------------------------------------------- program constants
NONCE_TTL == 30 * 1000
CACHE_TTL == 60 * 60 * 1000
CLEANUP_INTERVAL == 60 * 1000
XOR_KEY_BYTES == 8
GUEST_UID == 0
FULL_ENCRYPT_LEN == 10240
STRIDE == 50

\* A JavaScript value that may be null: null itself, or a value.
NULL == [null |-> TRUE]
Some(v) == [null |-> FALSE, value |-> v]

\* -------------------------------------------------------------- input sets
Tokens == 1..MaxTokens
Uids == {GUEST_UID, 42}
ClockSteps == {TickMs}

\* File names as character sequences.
ReportPdf == <<"r", ".", "p", "d", "f">>
GonePdf == <<"g", ".", "p", "d", "f">>
\* The (uid, file, isPremium) arguments generate is called with.
GenArgs ==
  { <<42, ReportPdf, TRUE>>, <<42, GonePdf, FALSE>>,
    <<GUEST_UID, ReportPdf, FALSE>>, <<GUEST_UID, GonePdf, TRUE>> }

\* The values crypto.randomBytes(8) is drawn from.
XorKeys ==
  { <<1, 2, 3, 4, 5, 6, 7, 8>>,
    <<255, 0, 170, 85, 16, 32, 64, 128>> }

Min(a, b) == IF a < b THEN a ELSE b

\* ------------------------------------------------------------------ base64
B64Alphabet ==
  << "A", "B", "C", "D", "E", "F", "G", "H", "I", "J", "K", "L", "M",
     "N", "O", "P", "Q", "R", "S", "T", "U", "V", "W", "X", "Y", "Z",
     "a", "b", "c", "d", "e", "f", "g", "h", "i", "j", "k", "l", "m",
     "n", "o", "p", "q", "r", "s", "t", "u", "v", "w", "x", "y", "z",
     "0", "1", "2", "3", "4", "5", "6", "7", "8", "9", "+", "/" >>

B64Char(v) == B64Alphabet[v + 1]

B64Value(c) == (CHOOSE i \in 1..64 : B64Alphabet[i] = c) - 1

\* Buffer.prototype.toString('base64'): 3 bytes to 4 characters, '=' padded.
RECURSIVE toBase64(_)
toBase64(bytes) ==
  IF Len(bytes) = 0 THEN <<>>
  ELSE IF Len(bytes) = 1 THEN
    << B64Char(bytes[1] \div 4), B64Char((bytes[1] % 4) * 16), "=", "=" >>
  ELSE IF Len(bytes) = 2 THEN
    << B64Char(bytes[1] \div 4),
       B64Char((bytes[1] % 4) * 16 + bytes[2] \div 16),
       B64Char((bytes[2] % 16) * 4), "=" >>
  ELSE
    << B64Char(bytes[1] \div 4),
       B64Char((bytes[1] % 4) * 16 + bytes[2] \div 16),
       B64Char((bytes[2] % 16) * 4 + bytes[3] \div 64),
       B64Char(bytes[3] % 64) >> \o toBase64(SubSeq(bytes, 4, Len(bytes)))

\* atob followed by charCodeAt: 4 characters to up to 3 bytes.
RECURSIVE atob(_)
atob(text) ==
  IF Len(text) < 4 THEN <<>>
  ELSE
    LET a == B64Value(text[1])
        b == B64Value(text[2])
        rest == SubSeq(text, 5, Len(text))
    IN IF text[3] = "=" THEN << a * 4 + b \div 16 >>
       ELSE IF text[4] = "=" THEN
         << a * 4 + b \div 16, (b % 16) * 16 + B64Value(text[3]) \div 4 >>
       ELSE
         << a * 4 + b \div 16,
            (b % 16) * 16 + B64Value(text[3]) \div 4,
            (B64Value(text[3]) % 4) * 64 + B64Value(text[4]) >> \o atob(rest)

\* ------------------------------------------------------------------- codec
\* JavaScript's ^ on two bytes, bit by bit.
XorBit(a, b, w) == (((a \div w) + (b \div w)) % 2) * w

BitXor(a, b) ==
  XorBit(a, b, 1) + XorBit(a, b, 2) + XorBit(a, b, 4) + XorBit(a, b, 8)
    + XorBit(a, b, 16) + XorBit(a, b, 32) + XorBit(a, b, 64)
    + XorBit(a, b, 128)

\* Whether partialXorEncode writes index i (from 0): the first loop runs over
\* i < fullEncryptLen, the second from fullEncryptLen in steps of 50.
Encoded(i, fullEncryptLen) ==
  i < fullEncryptLen \/ (i - fullEncryptLen) % STRIDE = 0

\* The two loops of partialXorEncode over a copy of the buffer, of length n.
\* Sequences count from 1, buffers from 0.
XorLoops(buffer, xorKey, n, keyLen, fullEncryptLen) ==
  [p \in 1..n |->
     IF Encoded(p - 1, fullEncryptLen)
     THEN BitXor(buffer[p], xorKey[((p - 1) % keyLen) + 1])
     ELSE buffer[p]]

\* Variant: the key byte is added modulo 256 instead of XORed.
AddLoops(buffer, xorKey, n, keyLen, fullEncryptLen) ==
  [p \in 1..n |->
     IF Encoded(p - 1, fullEncryptLen)
     THEN (buffer[p] + xorKey[((p - 1) % keyLen) + 1]) % 256
     ELSE buffer[p]]

\* Variant of partialXorEncode that adds the key instead.
partialAddEncode(buffer, xorKey) ==
  AddLoops(buffer, xorKey, Len(buffer), Len(xorKey),
           Min(FULL_ENCRYPT_LEN, Len(buffer)))

\* Variant: the strided loop restarts the key at its first byte instead of
\* indexing it by the absolute offset.
RestartLoops(buffer, xorKey, n, keyLen, fullEncryptLen) ==
  [p \in 1..n |->
     IF p - 1 < fullEncryptLen
     THEN BitXor(buffer[p], xorKey[((p - 1) % keyLen) + 1])
     ELSE IF (p - 1 - fullEncryptLen) % STRIDE = 0
     THEN BitXor(buffer[p], xorKey[((p - 1 - fullEncryptLen) % keyLen) + 1])
     ELSE buffer[p]]

\* Variant of partialXorEncode whose second loop restarts the key.
partialXorEncodeRestart(buffer, xorKey) ==
  RestartLoops(buffer, xorKey, Len(buffer), Len(xorKey),
               Min(FULL_ENCRYPT_LEN, Len(buffer)))

\* partialXorEncode(buffer, xorKey): the encoded copy.
partialXorEncode(buffer, xorKey) ==
  XorLoops(buffer, xorKey, Len(buffer), Len(xorKey),
           Min(FULL_ENCRYPT_LEN, Len(buffer)))

\* Variant: the loops write to the buffer that was handed in.
BufferAfterEncodeInPlace(buffer, xorKey) == partialXorEncode(buffer, xorKey)

\* The buffer handed to partialXorEncode, after the call: Buffer.from(buffer)
\* is a copy, and the loops write to the copy.
BufferAfterEncode(buffer, xorKey) == buffer

\* The browser's decoder (static/viewer-app.js).  Whether partialXorDecode
\* writes index i (from 0): its first loop runs over i < fullDecryptLen, its
\* second from fullDecryptLen in steps of 50.
Decoded(i, fullDecryptLen) ==
  IF i < fullDecryptLen THEN TRUE ELSE (i - fullDecryptLen) % STRIDE = 0

\* The two loops of partialXorDecode over a Uint8Array copy of length n.
DecodeLoops(data, key, n, keyLen, fullDecryptLen) ==
  [p \in 1..n |->
     IF Decoded(p - 1, fullDecryptLen)
     THEN BitXor(data[p], key[((p - 1) % keyLen) + 1])
     ELSE data[p]]

\* Variant: the decoder undoes the first 10 KiB only.
HeadLoops(data, key, n, keyLen, fullDecryptLen) ==
  [p \in 1..n |->
     IF p - 1 < fullDecryptLen
     THEN BitXor(data[p], key[((p - 1) % keyLen) + 1])
     ELSE data[p]]

\* Variant of partialXorDecode without the strided loop.
partialXorDecodeHead(encodedData, keyBase64) ==
  HeadLoops(encodedData, atob(keyBase64), Len(encodedData),
            Len(atob(keyBase64)), Min(FULL_ENCRYPT_LEN, Len(encodedData)))

\* partialXorDecode(encodedData, keyBase64): the decoded copy.
partialXorDecode(encodedData, keyBase64) ==
  DecodeLoops(encodedData, atob(keyBase64), Len(encodedData),
              Len(atob(keyBase64)), Min(FULL_ENCRYPT_LEN, Len(encodedData)))

\* ----------------------------------------------------------- path resolver
\* Paths are POSIX paths, as character sequences.
UploadPath == <<"/", "u">>

RECURSIVE StripTrailingSlashes(_)
StripTrailingSlashes(p) ==
  IF Len(p) > 0 /\ p[Len(p)] = "/"
  THEN StripTrailingSlashes(SubSeq(p, 1, Len(p) - 1))
  ELSE p

\* path.basename: the part after the last slash, trailing slashes ignored.
basename(p) ==
  LET q == StripTrailingSlashes(p)
      slashes == {i \in 1..Len(q) : q[i] = "/"}
  IN IF slashes = {} THEN q
     ELSE SubSeq(q, (CHOOSE i \in slashes : \A j \in slashes : j <= i) + 1, Len(q))

\* String.prototype.includes.
includes(p, sub) ==
  \E i \in 1..(Len(p) - Len(sub) + 1) : SubSeq(p, i, i + Len(sub) - 1) = sub

\* String.prototype.startsWith.
startsWith(p, prefix) ==
  Len(p) >= Len(prefix) /\ SubSeq(p, 1, Len(prefix)) = prefix

\* The segments of a path: what stands between its slashes.
RECURSIVE Split(_)
Split(p) ==
  IF \A i \in 1..Len(p) : p[i] # "/" THEN <<p>>
  ELSE LET i == CHOOSE k \in 1..Len(p) :
                  p[k] = "/" /\ \A j \in 1..(k - 1) : p[j] # "/"
       IN <<SubSeq(p, 1, i - 1)>> \o Split(SubSeq(p, i + 1, Len(p)))

\* Node's normalizeString for an absolute path: empty and "." segments are
\* dropped, ".." drops the segment before it and stops at the root.
RECURSIVE NormalizeSegments(_, _)
NormalizeSegments(segs, acc) ==
  IF segs = <<>> THEN acc
  ELSE LET seg == Head(segs)
       IN IF seg = <<>> \/ seg = <<".">>
          THEN NormalizeSegments(Tail(segs), acc)
          ELSE IF seg = <<".", ".">>
          THEN NormalizeSegments(Tail(segs),
                 IF acc = <<>> THEN acc ELSE SubSeq(acc, 1, Len(acc) - 1))
          ELSE NormalizeSegments(Tail(segs), Append(acc, seg))

RECURSIVE JoinSegments(_)
JoinSegments(segs) ==
  IF segs = <<>> THEN <<>>
  ELSE <<"/">> \o Head(segs) \o JoinSegments(Tail(segs))

\* path.normalize of an absolute path: a trailing slash is kept.
PathNormalize(p) ==
  LET segs == NormalizeSegments(Split(p), <<>>)
  IN IF segs = <<>> THEN <<"/">>
     ELSE IF p[Len(p)] = "/" THEN JoinSegments(segs) \o <<"/">>
     ELSE JoinSegments(segs)

\* path.join(dir, name) for an absolute dir: the arguments joined with a
\* slash (an empty one skipped), then normalised.
PathJoin(dir, name) ==
  IF name = <<>> THEN PathNormalize(dir)
  ELSE PathNormalize(dir \o <<"/">> \o name)

FilesDir == PathJoin(UploadPath, <<"f", "i", "l", "e", "s">>)

\* path.resolve of an absolute path: normalised, without a trailing slash.
PathResolve(p) ==
  LET segs == NormalizeSegments(Split(p), <<>>)
  IN IF segs = <<>> THEN <<"/">> ELSE JoinSegments(segs)

\* Variant: the basename is used where the code rejects a name that differs
\* from its basename.
resolveFilePathSanitising(filename) ==
  LET safeName == basename(filename)
  IN IF safeName = <<>> \/ includes(safeName, <<".", ".">>)
     THEN NULL
     ELSE LET filePath == PathJoin(FilesDir, safeName)
          IN IF ~startsWith(PathResolve(filePath), PathResolve(FilesDir))
             THEN NULL
             ELSE Some(filePath)

\* Variant: the name is joined to the root as it came, unchecked.
resolveFilePathUnchecked(filename) ==
  IF filename = <<>> THEN NULL ELSE Some(PathJoin(FilesDir, filename))

\* PdfHandler.resolveFilePath: the path, or null.
resolveFilePath(filename) ==
  LET safeName == basename(filename)
  IN IF safeName = <<>> \/ safeName # filename
          \/ includes(safeName, <<".", ".">>)
     THEN NULL
     ELSE LET filePath == PathJoin(FilesDir, safeName)
              resolvedPath == PathResolve(filePath)
              resolvedUploadDir == PathResolve(FilesDir)
          IN IF ~startsWith(resolvedPath, resolvedUploadDir)
             THEN NULL
             ELSE Some(filePath)

\* ---------------------------------------------------------- document store
\* A PDF document is a sequence of pages, a page one byte.  On disk it is the
\* byte '%', the page count, then the pages.
PdfSave(pages) == <<37, Len(pages)>> \o pages

\* PDFDocument.load: the pages, or null where it throws.
PdfLoad(bytes) ==
  IF Len(bytes) >= 2 /\ bytes[1] = 37 /\ Len(bytes) = 2 + bytes[2]
  THEN Some(SubSeq(bytes, 3, Len(bytes)))
  ELSE NULL

\* The uploads directory holds files/r.pdf, a document of two pages, and
\* files/b.pdf, which is not a PDF.  A disk is the set of names in files/.
ReportBytes == PdfSave(<<11, 22>>)
BadPdf == <<"b", ".", "p", "d", "f">>
BadBytes == <<66, 65, 68>>
InitialDisk == {ReportPdf, BadPdf}
\* files/e.pdf, where it is there, is a document without pages.
EmptyPdf == <<"e", ".", "p", "d", "f">>
EmptyBytes == PdfSave(<<>>)

Stat(disk, path) ==
  IF path = UploadPath \/ path = FilesDir THEN "dir"
  ELSE IF \E f \in disk : path = PathJoin(FilesDir, f) THEN "file"
  ELSE "none"

\* fs.existsSync.
existsSync(disk, path) == Stat(disk, path) # "none"

\* fs.promises.readFile: the bytes, or null where the promise rejects.
readFile(disk, path) ==
  IF Stat(disk, path) # "file" THEN NULL
  ELSE IF path = PathJoin(FilesDir, ReportPdf) THEN Some(ReportBytes)
  ELSE IF path = PathJoin(FilesDir, EmptyPdf) THEN Some(EmptyBytes)
  ELSE Some(BadBytes)

\* What a Document Store call has done when it first awaits or returns:
\* thrown, returned a buffer, or begun reading a path; with the calls it
\* made on the way, in order.
Throws(msg, trace) ==
  [kind |-> "throw", msg |-> msg, buffer |-> <<>>, path |-> <<>>,
   trace |-> trace]
Returns(buffer, trace) ==
  [kind |-> "return", msg |-> "", buffer |-> buffer, path |-> <<>>,
   trace |-> trace]
Reads(path, trace) ==
  [kind |-> "read", msg |-> "", buffer |-> <<>>, path |-> path,
   trace |-> trace]

\* Variant: the file is looked for before the name is checked.
getFullPdfExistsFirst(disk, filename) ==
  LET filePath == PathJoin(FilesDir, filename)
  IN IF ~existsSync(disk, filePath)
     THEN Throws("File not found", <<"existsSync">>)
     ELSE IF resolveFilePath(filename) = NULL
     THEN Throws("Invalid filename", <<"existsSync", "resolveFilePath">>)
     ELSE Reads(filePath, <<"existsSync", "resolveFilePath", "readFile">>)

\* PdfHandler.getFullPdf up to its readFile.
getFullPdf(disk, filename) ==
  LET filePath == resolveFilePath(filename)
  IN IF filePath = NULL THEN Throws("Invalid filename", <<"resolveFilePath">>)
     ELSE IF ~existsSync(disk, filePath.value)
     THEN Throws("File not found", <<"resolveFilePath", "existsSync">>)
     ELSE Reads(filePath.value, <<"resolveFilePath", "existsSync", "readFile">>)

\* Variant: getSinglePagePdf without the cache lookup.
getSinglePagePdfNoCache(disk, cache, filename, t) ==
  LET filePath == resolveFilePath(filename)
  IN IF filePath = NULL THEN Throws("Invalid filename", <<"resolveFilePath">>)
     ELSE IF ~existsSync(disk, filePath.value)
     THEN Throws("File not found", <<"resolveFilePath", "existsSync">>)
     ELSE Reads(filePath.value, <<"resolveFilePath", "existsSync", "readFile">>)

\* Variant: an entry is served up to and including the age of CACHE_TTL.
getSinglePagePdfAtTtl(disk, cache, filename, t) ==
  IF filename \in DOMAIN cache /\ t - cache[filename].createdAt <= CACHE_TTL
  THEN Returns(cache[filename].buffer, <<>>)
  ELSE LET filePath == resolveFilePath(filename)
       IN IF filePath = NULL
          THEN Throws("Invalid filename", <<"resolveFilePath">>)
          ELSE IF ~existsSync(disk, filePath.value)
          THEN Throws("File not found", <<"resolveFilePath", "existsSync">>)
          ELSE Reads(filePath.value,
                     <<"resolveFilePath", "existsSync", "readFile">>)

\* PdfHandler.getSinglePagePdf up to its readFile.
getSinglePagePdf(disk, cache, filename, t) ==
  IF filename \in DOMAIN cache /\ t - cache[filename].createdAt < CACHE_TTL
  THEN Returns(cache[filename].buffer, <<>>)
  ELSE LET filePath == resolveFilePath(filename)
       IN IF filePath = NULL
          THEN Throws("Invalid filename", <<"resolveFilePath">>)
          ELSE IF ~existsSync(disk, filePath.value)
          THEN Throws("File not found", <<"resolveFilePath", "existsSync">>)
          ELSE Reads(filePath.value,
                     <<"resolveFilePath", "existsSync", "readFile">>)

\* Variant: a source without pages gives a document without pages.
DeriveOrEmpty(existingPdfBytes) ==
  LET srcDoc == PdfLoad(existingPdfBytes)
  IN IF srcDoc = NULL THEN NULL
     ELSE IF Len(srcDoc.value) = 0 THEN Some(PdfSave(<<>>))
     ELSE Some(PdfSave(<<srcDoc.value[1]>>))

\* Variant: the derivation copies the last page of the source.
DeriveLastPage(existingPdfBytes) ==
  LET srcDoc == PdfLoad(existingPdfBytes)
  IN IF srcDoc = NULL THEN NULL
     ELSE IF Len(srcDoc.value) = 0 THEN NULL
     ELSE Some(PdfSave(<<srcDoc.value[Len(srcDoc.value)]>>))

\* PdfHandler.getSinglePagePdf from PDFDocument.load to newDoc.save: the
\* bytes of a document holding a copy of page 0, or null where a call throws
\* (a source that does not parse, or has no page 0 to copy).
DeriveFirstPage(existingPdfBytes) ==
  LET srcDoc == PdfLoad(existingPdfBytes)
  IN IF srcDoc = NULL THEN NULL
     ELSE IF Len(srcDoc.value) = 0 THEN NULL
     ELSE Some(PdfSave(<<srcDoc.value[1]>>))

\* ----------------------------------------------------------------- gateway
\* A response: its status and its body, JSON {error} or the bytes sent.
JsonError(status, error) ==
  [status |-> status, error |-> error, bytes |-> <<>>]
SendBytes(bytes) == [status |-> 200, error |-> "", bytes |-> bytes]

\* The catch block of servePdfBinary.
CatchResponse(msg) ==
  IF msg = "File not found"
  THEN JsonError(404, "PDF not found")
  ELSE JsonError(500, "Internal error")

\* req.uid || 0.
\* Variant: a request without a uid redeems for no subject at all.
UidIfAny(uid) == IF uid = NULL THEN 0 - 1 ELSE uid.value

UidOrGuest(uid) == IF uid = NULL \/ uid = Some(0) THEN GUEST_UID ELSE uid.value

\* Variant: the gateway fetches the full document whatever the flag says.
FetchPdfAlwaysFull(data, disk, cache, t) ==
  [fn |-> "getFullPdf", call |-> getFullPdf(disk, data.file)]

\* The Document Store function servePdfBinary calls for a redeemed record,
\* and what the call has done when it first awaits or returns.
FetchPdf(data, disk, cache, t) ==
  IF data.isPremium
  THEN [fn |-> "getFullPdf", call |-> getFullPdf(disk, data.file)]
  ELSE [fn |-> "getSinglePagePdf",
        call |-> getSinglePagePdf(disk, cache, data.file, t)]

\* The derivative cache's setInterval callback: drop every entry older than
\* CACHE_TTL.
SweepCache(cache, t) ==
  [f \in {x \in DOMAIN cache : ~(t - cache[x].createdAt > CACHE_TTL)} |->
     cache[f]]

\* String.prototype.toLowerCase, on the letters file names are made of here.
LowerChar(c) ==
  IF c = "P" THEN "p" ELSE IF c = "D" THEN "d" ELSE IF c = "F" THEN "f"
  ELSE IF c = "R" THEN "r" ELSE c

toLowerCase(text) == [i \in 1..Len(text) |-> LowerChar(text[i])]

\* String.prototype.endsWith.
endsWith(text, suffix) ==
  Len(text) >= Len(suffix)
    /\ SubSeq(text, Len(text) - Len(suffix) + 1, Len(text)) = suffix

\* ------------------------------------------------------------------- state
VARIABLES
  store,      \* nonce-store.js `store`: token id -> record
  now,        \* Date.now()
  sweepDue,   \* when the token store's setInterval callback fires next
  minted,     \* token ids uuidv4() has returned so far
  issued,     \* history: token id -> what generate was given and returned
  attempted,  \* history: issued token ids validate has been called on
  redeemed,   \* history: token ids validate has returned a record for
  last,       \* history: the most recent direct NonceStore call, its result
  cStage,     \* codec: "off", "input", "encoded" or "twice"
  cBuffer,    \* codec: the buffer handed to partialXorEncode
  cKey,       \* codec: the key handed to partialXorEncode
  cOnce,      \* codec: partialXorEncode(cBuffer, cKey)
  cTwice,     \* codec: partialXorEncode(cOnce, cKey)
  cDecoded,   \* codec: partialXorDecode(cOnce, base64 of cKey)
  pStage,     \* resolver: "off", "input" or "resolved"
  pName,      \* resolver: the filename handed to resolveFilePath
  pResult,    \* resolver: what resolveFilePath returned
  reqs,       \* gateway: the servePdfBinary calls, by request
  singlePageCache,  \* pdf-handler.js `singlePageCache`: filename -> entry
  disk,       \* the names of the files in the uploads files directory
  cacheSweepDue,    \* when the cache's setInterval callback fires next
  viewerHtmlCache,  \* the plugin's `viewerHtmlCache`: null or the template
  page,       \* viewer route: the response to the latest request
  dStage,     \* derivation: "off", "input" or "derived"
  dSource,    \* derivation: the bytes readFile gave getSinglePagePdf
  dDerived,   \* derivation: the buffer made of them, or null where it threw
  gate,       \* the request the router's uploads handlers are dealing with
  members     \* the forum's groups: group name -> the uids in it

storeVars == <<store, now, sweepDue, minted, issued, attempted, redeemed, last>>
codecVars == <<cStage, cBuffer, cKey, cOnce, cTwice, cDecoded>>
resolverVars == <<pStage, pName, pResult>>
deriveVars == <<dStage, dSource, dDerived>>
gatewayVars == <<reqs, singlePageCache, disk, cacheSweepDue>>
viewerVars == <<viewerHtmlCache, page>>
gateVars == <<gate, members>>
vars == <<storeVars, codecVars, resolverVars, deriveVars, gatewayVars, viewerVars, gateVars>>

NoCall == [op |-> "none"]

StoreInit ==
  /\ store = <<>>
  /\ now = 0
  /\ sweepDue = CLEANUP_INTERVAL
  /\ minted = {}
  /\ issued = <<>>
  /\ attempted = {}
  /\ redeemed = {}
  /\ last = NoCall

CodecOff ==
  /\ cStage = "off"
  /\ cBuffer = <<>>
  /\ cKey = <<>>
  /\ cOnce = <<>>
  /\ cTwice = <<>>
  /\ cDecoded = <<>>

ResolverOff ==
  /\ pStage = "off"
  /\ pName = <<>>
  /\ pResult = NULL

DeriveOff ==
  /\ dStage = "off"
  /\ dSource = <<>>
  /\ dDerived = NULL

ReqIds == 1..MaxReqs

\* A request that has not arrived yet.
\* Besides what servePdfBinary holds, a request records for the properties
\* why its token is no good (why), the Document Store function called (fn),
\* the calls that function made (trace), the message of the error caught
\* (err), the stages servePdfBinary has been through (log) and req.uid as
\* the request carried it (reqUid).
NewReq ==
  [pc |-> "new", nonce |-> NULL, uid |-> GUEST_UID, data |-> NULL,
   path |-> <<>>, bytes |-> <<>>, res |-> NULL,
   why |-> {}, fn |-> "none", trace |-> <<>>, err |-> NULL, log |-> <<>>,
   reqUid |-> NULL]

CACHE_CLEANUP_INTERVAL == 10 * 60 * 1000

GatewayInit ==
  /\ reqs = [r \in ReqIds |-> NewReq]
  /\ singlePageCache = <<>>
  /\ disk = InitialDisk
  /\ cacheSweepDue = CACHE_CLEANUP_INTERVAL

\* The template plugin.init read into viewerHtmlCache.
ViewerHtml == <<"<", "/", "h", "e", "a", "d", ">">>

\* No viewer request answered yet.
\* Besides the response, a page records for the properties what the
\* request carried: req.uid (uid) and req.query.file (file).
NoPage ==
  [status |-> 0, body |-> "", config |-> NULL, uid |-> NULL, file |-> NULL]

\* The groups whose members may fetch uploaded PDFs directly.
Groups == {"administrators", "Global Moderators"}

\* No request for an upload yet; nobody is in either group.
NoGate ==
  [pc |-> "idle", path |-> <<>>, uid |-> NULL, filename |-> NULL,
   isAdmin |-> NULL, isGlobalMod |-> NULL, res |-> NULL, next |-> FALSE,
   stable |-> TRUE]

GateOff ==
  /\ gate = NoGate
  /\ members = [g \in Groups |-> {}]

ViewerInit ==
  /\ viewerHtmlCache = Some(ViewerHtml)
  /\ page = NoPage

Init ==
  /\ StoreInit
  /\ CodecOff
  /\ ResolverOff
  /\ DeriveOff
  /\ GatewayInit
  /\ ViewerInit
  /\ GateOff

\* A map without one key (Map.prototype.delete).
MapDelete(m, k) == [x \in DOMAIN m \ {k} |-> m[x]]

\* A map with one key set (Map.prototype.set).
MapSet(m, k, v) == [x \in DOMAIN m \cup {k} |-> IF x = k THEN v ELSE m[x]]

\* ------------------------------------------------------------- token store
\* Variant: the sweep compares with >= instead of >.
SweepStoreAtTtl(s, t) ==
  [n \in {x \in DOMAIN s : ~(t - s[x].createdAt >= NONCE_TTL)} |-> s[n]]

\* Variant: the sweep's comparison is inverted, so it drops nothing expired.
SweepStoreInverted(s, t) ==
  [n \in {x \in DOMAIN s : ~(t - s[x].createdAt < NONCE_TTL)} |-> s[n]]

\* Variant: the callback drops nothing.
SweepStoreNothing(s, t) == s

\* The setInterval callback: drop every record older than the TTL.
SweepStore(s, t) ==
  [n \in {x \in DOMAIN s : ~(t - s[x].createdAt > NONCE_TTL)} |-> s[n]]

\* Variant: generate starts the store afresh with the new record.
generateAlone(s, nonce, xorKey, uid, file, isPremium, t) ==
  [store |-> MapSet(<<>>, nonce,
                    [uid |-> uid, file |-> file, isPremium |-> isPremium,
                     xorKey |-> xorKey, createdAt |-> t]),
   result |-> [nonce |-> nonce, xorKey |-> toBase64(xorKey)]]

\* NonceStore.generate: the new store and the returned {nonce, xorKey}.
NonceStore_generate(s, nonce, xorKey, uid, file, isPremium, t) ==
  [store |-> MapSet(s, nonce,
                    [uid |-> uid, file |-> file, isPremium |-> isPremium,
                     xorKey |-> xorKey, createdAt |-> t]),
   result |-> [nonce |-> nonce, xorKey |-> toBase64(xorKey)]]

\* Variant: getKey consumes the record it reads.
getKeyConsuming(s, nonce) ==
  IF nonce \notin DOMAIN s
  THEN [store |-> s, result |-> NULL]
  ELSE [store |-> MapDelete(s, nonce),
        result |-> Some(toBase64(s[nonce].xorKey))]

\* Variant: getKey gives no key of a record older than NONCE_TTL.
getKeyWithinTtl(s, nonce) ==
  IF nonce \notin DOMAIN s \/ now - s[nonce].createdAt > NONCE_TTL
  THEN [store |-> s, result |-> NULL]
  ELSE [store |-> s, result |-> Some(toBase64(s[nonce].xorKey))]

\* NonceStore.getKey: the store afterwards and the returned value.
NonceStore_getKey(s, nonce) ==
  IF nonce \notin DOMAIN s
  THEN [store |-> s, result |-> NULL]
  ELSE [store |-> s, result |-> Some(toBase64(s[nonce].xorKey))]

\* Variant: validate without store.delete(nonce).
validateNoDelete(s, nonce, uid, t) ==
  IF nonce \notin DOMAIN s
  THEN [store |-> s, result |-> NULL]
  ELSE LET data == s[nonce]
       IN IF data.uid # uid THEN [store |-> s, result |-> NULL]
          ELSE IF t - data.createdAt > NONCE_TTL
          THEN [store |-> s, result |-> NULL]
          ELSE [store |-> s, result |-> Some(data)]

\* Variant: validate deletes the record only when it returns it.
validateDeleteOnSuccess(s, nonce, uid, t) ==
  IF nonce \notin DOMAIN s
  THEN [store |-> s, result |-> NULL]
  ELSE LET data == s[nonce]
       IN IF data.uid # uid THEN [store |-> s, result |-> NULL]
          ELSE IF t - data.createdAt > NONCE_TTL
          THEN [store |-> s, result |-> NULL]
          ELSE [store |-> MapDelete(s, nonce), result |-> Some(data)]

\* Variant: validate without the TTL check.
validateNoTtl(s, nonce, uid, t) ==
  IF nonce \notin DOMAIN s
  THEN [store |-> s, result |-> NULL]
  ELSE LET data == s[nonce]
           deleted == MapDelete(s, nonce)
       IN IF data.uid # uid THEN [store |-> deleted, result |-> NULL]
          ELSE [store |-> deleted, result |-> Some(data)]

\* Variant: validate without the uid check.
validateNoUid(s, nonce, uid, t) ==
  IF nonce \notin DOMAIN s
  THEN [store |-> s, result |-> NULL]
  ELSE LET data == s[nonce]
           deleted == MapDelete(s, nonce)
       IN IF t - data.createdAt > NONCE_TTL
          THEN [store |-> deleted, result |-> NULL]
          ELSE [store |-> deleted, result |-> Some(data)]

\* Variant: validate compares the age with >= instead of >.
validateAtTtl(s, nonce, uid, t) ==
  IF nonce \notin DOMAIN s
  THEN [store |-> s, result |-> NULL]
  ELSE LET data == s[nonce]
           deleted == MapDelete(s, nonce)
       IN IF data.uid # uid THEN [store |-> deleted, result |-> NULL]
          ELSE IF t - data.createdAt >= NONCE_TTL
          THEN [store |-> deleted, result |-> NULL]
          ELSE [store |-> deleted, result |-> Some(data)]

\* NonceStore.validate: the store afterwards and the returned value.
NonceStore_validate(s, nonce, uid, t) ==
  IF nonce \notin DOMAIN s
  THEN [store |-> s, result |-> NULL]
  ELSE LET data == s[nonce]
           deleted == MapDelete(s, nonce)
       IN IF data.uid # uid THEN [store |-> deleted, result |-> NULL]
          ELSE IF t - data.createdAt > NONCE_TTL
          THEN [store |-> deleted, result |-> NULL]
          ELSE [store |-> deleted, result |-> Some(data)]

\* ----------------------------------------------------------------- actions
\* uuidv4(): an id never returned before; which one is immaterial, so the
\* ids are handed out in order.
FreshTokens(used) ==
  {n \in Tokens \ used : \A m \in Tokens \ used : n <= m}

\* A call of NonceStore.generate with arguments from argSet, the key drawn
\* from keys.
GenerateWith(argSet, keys) ==
  \E nonce \in FreshTokens(minted), xorKey \in keys, args \in argSet :
    LET uid == args[1]
        file == args[2]
        isPremium == args[3]
        r == NonceStore_generate(store, nonce, xorKey, uid, file, isPremium, now)
    IN /\ store' = r.store
       /\ minted' = minted \cup {nonce}
       /\ issued' = MapSet(issued, nonce,
                           [uid |-> uid, file |-> file, isPremium |-> isPremium,
                            nonce |-> r.result.nonce, xorKey |-> r.result.xorKey,
                            at |-> now])
       /\ last' = [op |-> "generate", nonce |-> nonce, result |-> r.result]
       /\ UNCHANGED <<now, sweepDue, attempted, redeemed>>
       /\ UNCHANGED <<codecVars, resolverVars, deriveVars, gatewayVars, viewerVars, gateVars>>

Generate == GenerateWith(GenArgs, XorKeys)

GetKey ==
  \E nonce \in Tokens :
    LET r == NonceStore_getKey(store, nonce)
    IN /\ store' = r.store
       /\ last' = [op |-> "getKey", nonce |-> nonce, result |-> r.result,
                   pre |-> store, at |-> now]
       /\ UNCHANGED <<now, sweepDue, minted, issued, attempted, redeemed>>
       /\ UNCHANGED <<codecVars, resolverVars, deriveVars, gatewayVars, viewerVars, gateVars>>

Validate ==
  \E nonce \in Tokens, uid \in Uids :
    LET r == NonceStore_validate(store, nonce, uid, now)
    IN /\ store' = r.store
       /\ attempted' = attempted \cup ({nonce} \cap minted)
       /\ redeemed' = IF r.result # NULL THEN redeemed \cup {nonce} ELSE redeemed
       /\ last' = [op |-> "validate", nonce |-> nonce, uid |-> uid,
                   result |-> r.result, pre |-> store, at |-> now,
                   again |-> nonce \in attempted,
                   spent |-> nonce \in redeemed]
       /\ UNCHANGED <<now, sweepDue, minted, issued>>
       /\ UNCHANGED <<codecVars, resolverVars, deriveVars, gatewayVars, viewerVars, gateVars>>

Sweep ==
  /\ now >= sweepDue
  /\ store' = SweepStore(store, now)
  /\ sweepDue' = sweepDue + CLEANUP_INTERVAL
  /\ last' = [op |-> "sweep", pre |-> store, at |-> now]
  /\ UNCHANGED <<now, minted, issued, attempted, redeemed>>
  /\ UNCHANGED <<codecVars, resolverVars, deriveVars, gatewayVars, viewerVars, gateVars>>

\* The clock moves on, no further than the time the next timer callback is due.
Advance ==
  \E d \in ClockSteps :
    /\ now < MaxTime
    /\ now' = Min(now + d, sweepDue)
    /\ UNCHANGED <<store, sweepDue, minted, issued, attempted, redeemed, last>>
    /\ UNCHANGED <<codecVars, resolverVars, deriveVars, gatewayVars, viewerVars, gateVars>>

Next ==
  \/ Generate
  \/ GetKey
  \/ Validate
  \/ Sweep
  \/ Advance

Spec == Init /\ [][Next]_vars

\* --------------------------------------------------------- gateway actions
\* The query's nonce and the session's uid, as a request may carry them.
QueryNonces == {NULL} \cup {Some(n) : n \in Tokens}
RequestUids == {NULL} \cup {Some(u) : u \in Uids}

\* The request with one more stage behind it.
Stage(req, stage) == [req EXCEPT !.log = Append(@, stage)]

\* The request answered: res.send for the bytes, res.status().json for an
\* error.
Done(req, res) ==
  [req EXCEPT !.pc = "done", !.res = Some(res),
              !.log = Append(@, IF res.status = 200 THEN "SENT" ELSE "ERROR")]

\* Variant: every buffer is encoded with one key of the module.
SendStaticKey(req, pdfBuffer, xorKey) ==
  Done(Stage(Stage(req, "CONTENT_RESOLVED"), "TRANSFORMED"),
       SendBytes(partialXorEncode(pdfBuffer, <<1, 2, 3, 4, 5, 6, 7, 8>>)))

\* Variant: the buffer is sent as it was fetched.
SendRaw(req, pdfBuffer, xorKey) ==
  Done(Stage(req, "CONTENT_RESOLVED"), SendBytes(pdfBuffer))

\* servePdfBinary once the Document Store has given the buffer: encode it
\* with the record's key and send it.
Send(req, pdfBuffer, xorKey) ==
  Done(Stage(Stage(req, "CONTENT_RESOLVED"), "TRANSFORMED"),
       SendBytes(partialXorEncode(pdfBuffer, xorKey)))

\* Variant: a request without a token is answered like one with a bad token.
RefuseMissingAsInvalid(req) ==
  Done(req, JsonError(403, "Invalid or expired nonce"))

\* if (!nonce): the response.
RefuseMissing(req) == Done(req, JsonError(400, "Missing nonce"))

\* if (!data): the response.
RefuseInvalid(req) == Done(req, JsonError(403, "Invalid or expired nonce"))

\* Variant: the catch block sends the error's message to the client.
CaughtEcho(req, msg) ==
  Done([req EXCEPT !.err = Some(msg)],
       JsonError(IF msg = "File not found" THEN 404 ELSE 500, msg))

\* Variant: the catch block sends the record's key along.
CaughtWithKey(req, msg) ==
  Done([req EXCEPT !.err = Some(msg)],
       [status |-> 500, error |-> "Internal error",
        bytes |-> req.data.value.xorKey])

\* The catch block of servePdfBinary, given the message of the error.
Caught(req, msg) == Done([req EXCEPT !.err = Some(msg)], CatchResponse(msg))

\* Why nonceStore.validate has no record to give for this token and uid, if
\* so: the store does not know the token (never issued, swept, or destroyed
\* by a failed attempt), it was issued to another subject, it has outlived
\* NONCE_TTL, or it was redeemed before.
Causes(nonce, uid) ==
  {c \in {"unknown"} : nonce \notin DOMAIN store /\ nonce \notin redeemed}
  \cup {c \in {"spent"} : nonce \in redeemed}
  \cup {c \in {"subject"} : nonce \in DOMAIN store /\ issued[nonce].uid # uid}
  \cup {c \in {"expired"} :
          nonce \in DOMAIN store /\ now - issued[nonce].at > NONCE_TTL}

\* servePdfBinary once the Document Store call has begun: the request after
\* the call threw, returned at once, or began to read.
AfterFetch(req, data, fetch) ==
  LET called == [req EXCEPT !.fn = fetch.fn, !.trace = fetch.call.trace]
  IN IF fetch.call.kind = "throw" THEN Caught(called, fetch.call.msg)
     ELSE IF fetch.call.kind = "return"
     THEN Send(called, fetch.call.buffer, data.xorKey)
     ELSE [called EXCEPT
             !.pc = IF fetch.fn = "getFullPdf" THEN "readFull" ELSE "readSingle",
             !.path = fetch.call.path]

\* The cache once the Document Store call has begun: where getSinglePagePdf
\* returned the buffer of an entry, that entry holds the very buffer
\* servePdfBinary went on to hand to partialXorEncode.
CacheAfterFetch(cache, data, fetch) ==
  IF fetch.fn = "getSinglePagePdf" /\ fetch.call.kind = "return"
  THEN [cache EXCEPT ![data.file].buffer = BufferAfterEncode(@, data.xorKey)]
  ELSE cache

\* servePdfBinary from its entry to its first pending read, or to its
\* response where it gets that far.
ServeStart(r) ==
  /\ reqs[r].pc = "new"
  /\ \A q \in ReqIds : q < r => reqs[q].pc # "new"
  /\ \E nonce \in QueryNonces, requestUid \in RequestUids :
       IF nonce = NULL
       THEN /\ reqs' = [reqs EXCEPT ![r] = RefuseMissing(Stage(@, "RECEIVED"))]
            /\ UNCHANGED storeVars
            /\ UNCHANGED singlePageCache
       ELSE LET uid == UidOrGuest(requestUid)
                v == NonceStore_validate(store, nonce.value, uid, now)
                req == [reqs[r] EXCEPT !.nonce = nonce, !.uid = uid,
                                       !.reqUid = requestUid,
                                       !.data = v.result,
                                       !.why = Causes(nonce.value, uid),
                                       !.log = IF v.result = NULL
                                               THEN <<"RECEIVED">>
                                               ELSE <<"RECEIVED",
                                                      "TOKEN_VALIDATED">>]
            IN /\ store' = v.store
               /\ attempted' = attempted \cup ({nonce.value} \cap minted)
               /\ redeemed' = IF v.result # NULL
                               THEN redeemed \cup {nonce.value} ELSE redeemed
               /\ reqs' = [reqs EXCEPT ![r] =
                    IF v.result = NULL
                    THEN RefuseInvalid(req)
                    ELSE AfterFetch(req, v.result.value,
                           FetchPdf(v.result.value, disk, singlePageCache, now))]
               /\ singlePageCache' =
                    IF v.result = NULL THEN singlePageCache
                    ELSE CacheAfterFetch(singlePageCache, v.result.value,
                           FetchPdf(v.result.value, disk, singlePageCache, now))
               /\ UNCHANGED <<now, sweepDue, minted, issued, last>>
  /\ UNCHANGED <<disk, cacheSweepDue>>
  /\ UNCHANGED <<codecVars, resolverVars, deriveVars, viewerVars, gateVars>>

\* Variant: where the read fails the gateway puts the record back.
FullReadDoneRestoring(r) ==
  /\ reqs[r].pc = "readFull"
  /\ LET pdfBuffer == readFile(disk, reqs[r].path)
     IN /\ reqs' = [reqs EXCEPT ![r] =
             IF pdfBuffer = NULL
             THEN Caught(@, "ENOENT: no such file or directory")
             ELSE Send(@, pdfBuffer.value, @.data.value.xorKey)]
        /\ store' = IF pdfBuffer = NULL
                    THEN MapSet(store, reqs[r].nonce.value, reqs[r].data.value)
                    ELSE store
  /\ UNCHANGED <<now, sweepDue, minted, issued, attempted, redeemed, last>>
  /\ UNCHANGED <<singlePageCache, disk, cacheSweepDue>>
  /\ UNCHANGED <<codecVars, resolverVars, deriveVars, viewerVars, gateVars>>

\* getFullPdf's readFile settles: the catch block, or encode and send.
FullReadDone(r) ==
  /\ reqs[r].pc = "readFull"
  /\ LET pdfBuffer == readFile(disk, reqs[r].path)
     IN reqs' = [reqs EXCEPT ![r] =
          IF pdfBuffer = NULL THEN Caught(@, "ENOENT: no such file or directory")
          ELSE Send(@, pdfBuffer.value, @.data.value.xorKey)]
  /\ UNCHANGED <<singlePageCache, disk, cacheSweepDue>>
  /\ UNCHANGED <<storeVars, codecVars, resolverVars, deriveVars, viewerVars, gateVars>>

\* getSinglePagePdf's readFile settles: the catch block, or on to pdf-lib.
SingleReadDone(r) ==
  /\ reqs[r].pc = "readSingle"
  /\ LET existingPdfBytes == readFile(disk, reqs[r].path)
     IN reqs' = [reqs EXCEPT ![r] =
          IF existingPdfBytes = NULL
          THEN Caught(@, "ENOENT: no such file or directory")
          ELSE [@ EXCEPT !.pc = "derive", !.bytes = existingPdfBytes.value]]
  /\ UNCHANGED <<singlePageCache, disk, cacheSweepDue>>
  /\ UNCHANGED <<storeVars, codecVars, resolverVars, deriveVars, viewerVars, gateVars>>

\* Variant: the derivative is sent but not stored.
DeriveDoneUncached(r) ==
  /\ reqs[r].pc = "derive"
  /\ LET buffer == DeriveFirstPage(reqs[r].bytes)
         data == reqs[r].data.value
     IN reqs' = [reqs EXCEPT ![r] =
          IF buffer = NULL THEN Caught(@, "Failed to parse PDF document")
          ELSE Send(@, buffer.value, data.xorKey)]
  /\ UNCHANGED <<singlePageCache, disk, cacheSweepDue>>
  /\ UNCHANGED <<storeVars, codecVars, resolverVars, deriveVars, viewerVars,
                 gateVars>>

\* The pdf-lib calls settle: the catch block, or cache the derivative,
\* encode it and send.  The buffer put into the cache is the one handed to
\* partialXorEncode.
DeriveDone(r) ==
  /\ reqs[r].pc = "derive"
  /\ LET buffer == DeriveFirstPage(reqs[r].bytes)
         data == reqs[r].data.value
     IN IF buffer = NULL
        THEN /\ reqs' = [reqs EXCEPT ![r] =
                          Caught(@, "Failed to parse PDF document")]
             /\ UNCHANGED singlePageCache
        ELSE /\ singlePageCache' =
                  MapSet(singlePageCache, data.file,
                         [buffer |-> BufferAfterEncode(buffer.value, data.xorKey),
                          createdAt |-> now])
             /\ reqs' = [reqs EXCEPT ![r] =
                  Send(@, buffer.value, data.xorKey)]
  /\ UNCHANGED <<disk, cacheSweepDue>>
  /\ UNCHANGED <<storeVars, codecVars, resolverVars, deriveVars, viewerVars, gateVars>>

NextGateway ==
  \/ Generate
  \/ Sweep
  \/ Advance
  \/ \E r \in ReqIds : ServeStart(r)
  \/ \E r \in ReqIds : FullReadDone(r)
  \/ \E r \in ReqIds : SingleReadDone(r)
  \/ \E r \in ReqIds : DeriveDone(r)

SpecGateway == Init /\ [][NextGateway]_vars

\* ------------------------------------------------ viewer route and content
\* File names the viewer is asked for.
DotsPdf == <<".", ".", "p", "d", "f">>
UpperPdf == <<"r", ".", "P", "D", "F">>
PdfSuffix == <<".", "p", "d", "f">>

\* The value crypto.randomBytes(8) returns where the viewer is followed.
ViewerKeys == { <<1, 2, 3, 4, 5, 6, 7, 8>> }

\* req.uid of a viewer request: a guest or a member.
ViewerUids == {NULL, Some(42)}

\* req.query.file, as a request may carry it.
ViewerQueries ==
  { NULL, Some(<<"r">>), Some(ReportPdf), Some(<<"x", "/">> \o ReportPdf),
    Some(DotsPdf), Some(UpperPdf) }

\* The response of the viewer route: a status with a text, or the template
\* with PDF_SECURE_CONFIG injected.
ViewerError(status, body) ==
  [NoPage EXCEPT !.status = status, !.body = body]
ViewerPage(safeName, nonceData) ==
  [NoPage EXCEPT
     !.status = 200, !.body = "html",
     !.config = Some([filename |-> safeName, nonce |-> nonceData.nonce,
                      dk |-> nonceData.xorKey])]
\* The response p, as the answer to a request of uid for file.
Answer(p, uid, file) == [p EXCEPT !.uid = uid, !.file = file]

\* Variant: the viewer route issues the token before it looks for the
\* template.
ViewerRouteEager(queries, keys) ==
  \E file \in queries, requestUid \in ViewerUids, xorKey \in keys :
    /\ IF file = NULL
       THEN /\ page' = Answer(ViewerError(400, "Missing file parameter"),
                              requestUid, file)
            /\ UNCHANGED storeVars
       ELSE LET safeName == basename(file.value)
            IN IF safeName = <<>> \/ ~endsWith(toLowerCase(safeName), PdfSuffix)
               THEN /\ page' = Answer(ViewerError(400, "Invalid file"),
                                      requestUid, file)
                    /\ UNCHANGED storeVars
               ELSE \E nonce \in FreshTokens(minted) :
                      LET uid == UidOrGuest(requestUid)
                          isPremium == TRUE
                          r == NonceStore_generate(store, nonce, xorKey, uid,
                                                   safeName, isPremium, now)
                      IN /\ store' = r.store
                         /\ minted' = minted \cup {nonce}
                         /\ issued' = MapSet(issued, nonce,
                              [uid |-> uid, file |-> safeName,
                               isPremium |-> isPremium,
                               nonce |-> r.result.nonce,
                               xorKey |-> r.result.xorKey, at |-> now])
                         /\ page' =
                              IF viewerHtmlCache = NULL
                              THEN Answer(ViewerError(500, "Viewer not available"),
                                          requestUid, file)
                              ELSE Answer(ViewerPage(safeName, r.result),
                                          requestUid, file)
                         /\ UNCHANGED <<now, sweepDue, attempted, redeemed, last>>
    /\ UNCHANGED viewerHtmlCache
    /\ UNCHANGED <<codecVars, resolverVars, deriveVars, gatewayVars, gateVars>>

\* Variant: the viewer route issues first-page tokens.
ViewerRouteRestricted(queries, keys) ==
  \E file \in queries, requestUid \in ViewerUids, xorKey \in keys :
    /\ IF file = NULL
       THEN /\ page' = Answer(ViewerError(400, "Missing file parameter"),
                            requestUid, file)
            /\ UNCHANGED storeVars
       ELSE LET safeName == basename(file.value)
            IN IF safeName = <<>> \/ ~endsWith(toLowerCase(safeName), PdfSuffix)
               THEN /\ page' = Answer(ViewerError(400, "Invalid file"),
                                    requestUid, file)
                    /\ UNCHANGED storeVars
               ELSE IF viewerHtmlCache = NULL
               THEN /\ page' = Answer(ViewerError(500, "Viewer not available"),
                                    requestUid, file)
                    /\ UNCHANGED storeVars
               ELSE \E nonce \in FreshTokens(minted) :
                      LET uid == UidOrGuest(requestUid)
                          isPremium == FALSE
                          r == NonceStore_generate(store, nonce, xorKey, uid,
                                                   safeName, isPremium, now)
                      IN /\ store' = r.store
                         /\ minted' = minted \cup {nonce}
                         /\ issued' = MapSet(issued, nonce,
                              [uid |-> uid, file |-> safeName,
                               isPremium |-> isPremium,
                               nonce |-> r.result.nonce,
                               xorKey |-> r.result.xorKey, at |-> now])
                         /\ page' = Answer(ViewerPage(safeName, r.result),
                                         requestUid, file)
                         /\ UNCHANGED <<now, sweepDue, attempted, redeemed, last>>
    /\ UNCHANGED viewerHtmlCache
    /\ UNCHANGED <<codecVars, resolverVars, deriveVars, gatewayVars, gateVars>>

\* GET /plugins/pdf-secure/viewer, req.query.file drawn from queries and
\* the key from keys.
ViewerRouteWith(queries, keys) ==
  \E file \in queries, requestUid \in ViewerUids, xorKey \in keys :
    /\ IF file = NULL
       THEN /\ page' = Answer(ViewerError(400, "Missing file parameter"),
                            requestUid, file)
            /\ UNCHANGED storeVars
       ELSE LET safeName == basename(file.value)
            IN IF safeName = <<>> \/ ~endsWith(toLowerCase(safeName), PdfSuffix)
               THEN /\ page' = Answer(ViewerError(400, "Invalid file"),
                                    requestUid, file)
                    /\ UNCHANGED storeVars
               ELSE IF viewerHtmlCache = NULL
               THEN /\ page' = Answer(ViewerError(500, "Viewer not available"),
                                    requestUid, file)
                    /\ UNCHANGED storeVars
               ELSE \E nonce \in FreshTokens(minted) :
                      LET uid == UidOrGuest(requestUid)
                          isPremium == TRUE
                          r == NonceStore_generate(store, nonce, xorKey, uid,
                                                   safeName, isPremium, now)
                      IN /\ store' = r.store
                         /\ minted' = minted \cup {nonce}
                         /\ issued' = MapSet(issued, nonce,
                              [uid |-> uid, file |-> safeName,
                               isPremium |-> isPremium,
                               nonce |-> r.result.nonce,
                               xorKey |-> r.result.xorKey, at |-> now])
                         /\ page' = Answer(ViewerPage(safeName, r.result),
                                         requestUid, file)
                         /\ UNCHANGED <<now, sweepDue, attempted, redeemed, last>>
    /\ UNCHANGED viewerHtmlCache
    /\ UNCHANGED <<codecVars, resolverVars, deriveVars, gatewayVars, gateVars>>

ViewerRoute == ViewerRouteWith(ViewerQueries, ViewerKeys)

\* NonceStore.generate called for a first-page-only token.
RestrictedArgs == { <<42, ReportPdf, FALSE>>, <<42, BadPdf, FALSE>> }

GenerateRestricted == GenerateWith(RestrictedArgs, ViewerKeys)

\* A file of the uploads directory is removed (by the forum, not the plugin).
Unlink ==
  /\ \E f \in disk : disk' = disk \ {f}
  /\ UNCHANGED <<reqs, singlePageCache, cacheSweepDue>>
  /\ UNCHANGED <<storeVars, codecVars, resolverVars, deriveVars, viewerVars, gateVars>>

CoarseTickMs == 3 * CACHE_CLEANUP_INTERVAL
MaxCoarseTime == MaxCoarseTicks * CoarseTickMs

\* Nothing arrives for CoarseTickMs.  Pending reads have long settled; the
\* timers that came due on the way have fired: the token store's, last at
\* the new time, and the cache's, last one interval before it.  The cache's
\* callback due at the new time itself is CacheSweep.
Idle ==
  /\ now < MaxCoarseTime
  /\ cacheSweepDue > now
  /\ \A r \in ReqIds : reqs[r].pc \in {"new", "done"}
  /\ now' = now + CoarseTickMs
  /\ store' = SweepStore(store, now')
  /\ sweepDue' = now' + CLEANUP_INTERVAL
  /\ singlePageCache' = SweepCache(singlePageCache, now' - CACHE_CLEANUP_INTERVAL)
  /\ cacheSweepDue' = now'
  /\ UNCHANGED <<minted, issued, attempted, redeemed, last>>
  /\ UNCHANGED <<reqs, disk>>
  /\ UNCHANGED <<codecVars, resolverVars, deriveVars, viewerVars, gateVars>>

\* The derivative cache's setInterval callback.
CacheSweep ==
  /\ now >= cacheSweepDue
  /\ singlePageCache' = SweepCache(singlePageCache, now)
  /\ cacheSweepDue' = cacheSweepDue + CACHE_CLEANUP_INTERVAL
  /\ UNCHANGED <<reqs, disk>>
  /\ UNCHANGED <<storeVars, codecVars, resolverVars, deriveVars, viewerVars, gateVars>>

\* plugin.init has read the viewer template, or failed to.
InitContent ==
  /\ StoreInit
  /\ CodecOff
  /\ ResolverOff
  /\ DeriveOff
  /\ GatewayInit
  /\ viewerHtmlCache \in {NULL, Some(ViewerHtml)}
  /\ page = NoPage
  /\ GateOff

\* The viewer route, the gateway and the Document Store over a disk that
\* loses files, within one tick of the clock.
NextContent ==
  \/ ViewerRoute
  \/ GenerateRestricted
  \/ Unlink
  \/ \E r \in ReqIds : ServeStart(r)
  \/ \E r \in ReqIds : FullReadDone(r)
  \/ \E r \in ReqIds : SingleReadDone(r)
  \/ \E r \in ReqIds : DeriveDone(r)

SpecContent == InitContent /\ [][NextContent]_vars

\* The gateway and the derivative cache over the hours.
NextCache ==
  \/ GenerateRestricted
  \/ Unlink
  \/ Idle
  \/ CacheSweep
  \/ \E r \in ReqIds : ServeStart(r)
  \/ \E r \in ReqIds : SingleReadDone(r)
  \/ \E r \in ReqIds : DeriveDone(r)

SpecCache == Init /\ [][NextCache]_vars

\* ------------------------------------------------- the life of a record
MaxLifeTime == MaxLifeTicks * TickMs
LifeArgs == { <<42, ReportPdf, TRUE>> }

\* generate, while the clock of the model can still reach the second sweep
\* after it.
GenerateLife ==
  /\ now + NONCE_TTL + CLEANUP_INTERVAL <= MaxLifeTime
  /\ GenerateWith(LifeArgs, ViewerKeys)

AdvanceLife ==
  \E d \in ClockSteps :
    /\ now < MaxLifeTime
    /\ now' = Min(now + d, sweepDue)
    /\ UNCHANGED <<store, sweepDue, minted, issued, attempted, redeemed, last>>
    /\ UNCHANGED <<codecVars, resolverVars, deriveVars, gatewayVars, viewerVars,
                   gateVars>>

NextLife ==
  \/ GenerateLife
  \/ Validate
  \/ Sweep
  \/ AdvanceLife

\* Time passes and the timer fires whenever it is due.
SpecLife ==
  Init /\ [][NextLife]_vars /\ WF_vars(Sweep) /\ WF_vars(AdvanceLife)

\* C27: the store never holds a record older than NONCE_TTL plus
\* CLEANUP_INTERVAL, and every record in the store is eventually out of it.
C27_BoundedLifetime ==
  /\ [](\A n \in DOMAIN store :
          now - store[n].createdAt <= NONCE_TTL + CLEANUP_INTERVAL)
  /\ \A n \in Tokens : (n \in DOMAIN store) ~> (n \notin DOMAIN store)

\* A record nobody presented, NONCE_TTL plus CLEANUP_INTERVAL old, that the
\* sweep before passed over at the age of exactly NONCE_TTL.
C27_Witness ==
  \E n \in DOMAIN store :
    /\ n \notin attempted
    /\ now - store[n].createdAt = NONCE_TTL + CLEANUP_INTERVAL
    /\ sweepDue = now

\* ------------------------------------------------- direct access to uploads
\* The prefix of the route '/assets/uploads/files/:filename'.
FilesRoute ==
  << "/", "a", "s", "s", "e", "t", "s", "/", "u", "p", "l", "o", "a", "d", "s",
     "/", "f", "i", "l", "e", "s", "/" >>

\* Express matching the route against a path: req.params.filename, the one
\* segment after the prefix (a single trailing slash is allowed), or null
\* where the route does not match.
MatchFilename(path) ==
  IF ~startsWith(path, FilesRoute) THEN NULL
  ELSE LET rest == SubSeq(path, Len(FilesRoute) + 1, Len(path))
           seg == IF Len(rest) > 0 /\ rest[Len(rest)] = "/"
                  THEN SubSeq(rest, 1, Len(rest) - 1)
                  ELSE rest
       IN IF seg = <<>> \/ includes(seg, <<"/">>) THEN NULL ELSE Some(seg)

\* Variant: the middleware looks for '.pdf' in the path as it came.
DoubleSlashGuardAsWritten(path) ==
  includes(path, <<"/", "/">>) /\ includes(path, PdfSuffix)

\* The condition of the router.use middleware.
DoubleSlashGuard(path) ==
  includes(path, <<"/", "/">>) /\ includes(toLowerCase(path), PdfSuffix)

GuardRefusal == [status |-> 403, error |-> "Invalid path"]
GateRefusal ==
  [status |-> 403,
   error |-> "Direct PDF access is not allowed. Use the secure viewer."]

\* Variant: every logged-in requester may fetch a PDF directly.
MayBypassAlways(isAdmin, isGlobalMod) == TRUE

\* if (isAdmin || isGlobalMod).
MayBypass(isAdmin, isGlobalMod) == isAdmin \/ isGlobalMod

\* req.path of the requests that reach the router.
GatePaths ==
  { FilesRoute \o ReportPdf, FilesRoute \o UpperPdf, FilesRoute \o <<"r">>,
    FilesRoute \o ReportPdf \o <<"/">>, FilesRoute \o ReportPdf \o <<"x">>,
    FilesRoute \o <<"/">> \o ReportPdf, FilesRoute \o <<"/", "r">>,
    FilesRoute \o <<"/">> \o UpperPdf }

\* The uids that may be put into a group, and req.uid of a request.
MemberUids == {42, 7}
GateUids == {NULL, Some(0)} \cup {Some(u) : u \in MemberUids}

\* Variant: the uploads route empties the token store and the derivative
\* cache on its way.
UploadRequestClearing(paths, uids) ==
  /\ gate.pc \in {"idle", "done"}
  /\ \E path \in paths, uid \in uids :
       LET req == [NoGate EXCEPT !.path = path, !.uid = uid]
           filename == MatchFilename(path)
           routed == [req EXCEPT !.filename = filename]
       IN gate' =
            IF DoubleSlashGuard(path)
            THEN [req EXCEPT !.pc = "done", !.res = Some(GuardRefusal)]
            ELSE IF filename = NULL
            THEN [req EXCEPT !.pc = "done", !.next = TRUE]
            ELSE IF filename.value # <<>>
                    /\ endsWith(toLowerCase(filename.value), PdfSuffix)
            THEN IF uid # NULL /\ uid # Some(0)
                 THEN [routed EXCEPT !.pc = "members"]
                 ELSE [routed EXCEPT !.pc = "done", !.res = Some(GateRefusal)]
            ELSE [routed EXCEPT !.pc = "done", !.next = TRUE]
  /\ store' = <<>>
  /\ singlePageCache' = <<>>
  /\ UNCHANGED <<members, now, sweepDue, minted, issued, attempted, redeemed,
                 last, reqs, disk, cacheSweepDue>>
  /\ UNCHANGED <<codecVars, resolverVars, deriveVars, viewerVars>>

\* A request arrives at the router: the double-slash middleware, then the
\* uploads route up to its await, or to its end where it gets that far.
UploadRequestWith(paths, uids) ==
  /\ gate.pc \in {"idle", "done"}
  /\ \E path \in paths, uid \in uids :
       LET req == [NoGate EXCEPT !.path = path, !.uid = uid]
           filename == MatchFilename(path)
           routed == [req EXCEPT !.filename = filename]
       IN gate' =
            IF DoubleSlashGuard(path)
            THEN [req EXCEPT !.pc = "done", !.res = Some(GuardRefusal)]
            ELSE IF filename = NULL
            THEN [req EXCEPT !.pc = "done", !.next = TRUE]
            ELSE IF filename.value # <<>>
                    /\ endsWith(toLowerCase(filename.value), PdfSuffix)
            THEN IF uid # NULL /\ uid # Some(0)
                 THEN [routed EXCEPT !.pc = "members"]
                 ELSE [routed EXCEPT !.pc = "done", !.res = Some(GateRefusal)]
            ELSE [routed EXCEPT !.pc = "done", !.next = TRUE]
  /\ UNCHANGED members
  /\ UNCHANGED <<storeVars, codecVars, resolverVars, deriveVars, gatewayVars,
                 viewerVars>>

UploadRequest == UploadRequestWith(GatePaths, GateUids)

\* One of the two groups.isMember promises settles; after the second the
\* route goes on to next() or to its 403.
MemberKnown ==
  /\ gate.pc = "members"
  /\ \E g \in Groups :
       LET seen == gate.uid.value \in members[g]
           after == IF g = "administrators"
                    THEN [gate EXCEPT !.isAdmin = Some(seen)]
                    ELSE [gate EXCEPT !.isGlobalMod = Some(seen)]
       IN /\ IF g = "administrators" THEN gate.isAdmin = NULL
                                      ELSE gate.isGlobalMod = NULL
          /\ gate' =
               IF after.isAdmin = NULL \/ after.isGlobalMod = NULL THEN after
               ELSE IF MayBypass(after.isAdmin.value, after.isGlobalMod.value)
               THEN [after EXCEPT !.pc = "done", !.next = TRUE]
               ELSE [after EXCEPT !.pc = "done", !.res = Some(GateRefusal)]
  /\ UNCHANGED members
  /\ UNCHANGED <<storeVars, codecVars, resolverVars, deriveVars, gatewayVars,
                 viewerVars>>

\* The forum puts a user into a group or takes one out of it.  A request
\* stays stable while the groups of its requester are as it found them.
SetMembers ==
  /\ \E g \in Groups, u \in MemberUids :
       /\ members' = [members EXCEPT ![g] =
                        IF u \in @ THEN @ \ {u} ELSE @ \cup {u}]
       /\ gate' = IF gate.uid = Some(u)
                  THEN [gate EXCEPT !.stable = FALSE]
                  ELSE gate
  /\ UNCHANGED <<storeVars, codecVars, resolverVars, deriveVars, gatewayVars,
                 viewerVars>>

NextGate ==
  \/ UploadRequest
  \/ MemberKnown
  \/ SetMembers

SpecGate == Init /\ [][NextGate]_vars

\* The request was for a name ending in '.pdf', whatever the case.
GatePdf == endsWith(toLowerCase(gate.filename.value), PdfSuffix)

GateLoggedIn == gate.uid # NULL /\ gate.uid # Some(0)

\* C23: a request the uploads route has dealt with is passed on, without a
\* response, where the name does not end in '.pdf'; where it does, an
\* anonymous requester is answered 403 and a logged-in one is passed on
\* exactly when found in 'administrators' or 'Global Moderators', and
\* answered 403 otherwise.
C23_DirectAccessGate ==
  gate.pc = "done" /\ gate.filename # NULL
  => /\ gate.next <=> gate.res = NULL
     /\ ~gate.next => gate.res.value.status = 403
     /\ ~GatePdf => gate.next
     /\ GatePdf /\ ~GateLoggedIn => ~gate.next
     /\ GatePdf /\ GateLoggedIn
        => (gate.next <=> gate.isAdmin = Some(TRUE) \/ gate.isGlobalMod = Some(TRUE))
     /\ GatePdf /\ GateLoggedIn /\ gate.stable
        => (gate.next <=> \E g \in Groups : gate.uid.value \in members[g])

\* A global moderator who is no administrator fetches r.PDF, and is let
\* through.
C23_Witness ==
  /\ gate.pc = "done" /\ gate.filename = Some(UpperPdf)
  /\ gate.uid = Some(7) /\ gate.stable
  /\ 7 \in members["Global Moderators"] /\ 7 \notin members["administrators"]
  /\ gate.next /\ gate.res = NULL

\* C39: a request whose path holds '//' and, in whatever case, '.pdf' is
\* answered 403 'Invalid path' whoever sent it, and the uploads route has
\* neither matched it nor looked its sender up; no other request is given
\* that answer, and one that misses the route is passed on.
C39_DoubleSlashGuard ==
  gate.pc # "idle"
  => LET guarded == /\ includes(gate.path, <<"/", "/">>)
                    /\ includes(toLowerCase(gate.path), <<".", "p", "d", "f">>)
     IN /\ guarded
           => /\ gate.pc = "done" /\ ~gate.next
              /\ gate.res = Some(GuardRefusal)
              /\ gate.filename = NULL
              /\ gate.isAdmin = NULL /\ gate.isGlobalMod = NULL
        /\ ~guarded
           => /\ gate.res # Some(GuardRefusal)
              /\ MatchFilename(gate.path) = NULL
                 => gate.pc = "done" /\ gate.next /\ gate.res = NULL

\* A member of 'administrators' asked for //r.PDF and was refused.
C39_Witness ==
  /\ gate.path = FilesRoute \o <<"/">> \o UpperPdf
  /\ gate.uid = Some(42) /\ 42 \in members["administrators"]
  /\ gate.stable
  /\ gate.res = Some(GuardRefusal)

\* ------------------------------------------------------ the routes as wired
\* Controllers.renderAdminPage: the admin template with its title.
AdminPage ==
  [NoPage EXCEPT !.status = 200, !.body = "admin/plugins/pdf-secure"]

RenderAdminPage ==
  /\ page' = AdminPage
  /\ UNCHANGED viewerHtmlCache
  /\ UNCHANGED <<storeVars, codecVars, resolverVars, deriveVars, gatewayVars,
                 gateVars>>

\* The uploads requests followed next to the other routes: a member of
\* 'administrators' and a guest ask for r.pdf.
RoutePaths == {FilesRoute \o ReportPdf}
RouteUids == {NULL, Some(42)}
\* What the viewer is asked for there: nothing, r.pdf, or a name the Path
\* Resolver will reject.
RouteQueries == {NULL, Some(ReportPdf), Some(DotsPdf)}

InitRoutes ==
  /\ StoreInit
  /\ CodecOff
  /\ ResolverOff
  /\ DeriveOff
  /\ GatewayInit
  /\ ViewerInit
  /\ gate = NoGate
  /\ members = [g \in Groups |-> IF g = "administrators" THEN {42} ELSE {}]

\* Every route plugin.init registers; plugin.addRoutes registers none.
NextRoutes ==
  \/ ViewerRouteWith(RouteQueries, XorKeys)
  \/ RenderAdminPage
  \/ UploadRequestWith(RoutePaths, RouteUids)
  \/ MemberKnown
  \/ \E r \in ReqIds : ServeStart(r)
  \/ \E r \in ReqIds : FullReadDone(r)

SpecRoutes == InitRoutes /\ [][NextRoutes]_vars

\* C33: a viewer request is answered with the page exactly when it carries
\* a file whose basename ends in '.pdf', whatever the case, and the template
\* is cached; that step puts one record into the store, under an id never
\* handed out before, for req.uid or 0, the basename and the key whose
\* base64 the page carries, and leaves the other records as they were; a
\* request answered otherwise is answered 400 or 500 and leaves the store
\* and the ids handed out as they were.
C33_ViewerIssuance ==
  [][page' # page
     => LET file == page'.file
            named == /\ file # NULL
                     /\ endsWith(toLowerCase(basename(file.value)), PdfSuffix)
        IN /\ page'.status = 200 <=> named /\ viewerHtmlCache # NULL
           /\ page'.status = 200
              => LET n == page'.config.value.nonce
                 IN /\ n \notin minted /\ n \notin DOMAIN store
                    /\ minted' = minted \cup {n}
                    /\ DOMAIN store' = DOMAIN store \cup {n}
                    /\ \A m \in DOMAIN store : store'[m] = store[m]
                    /\ store'[n].uid = IF page'.uid = NULL THEN 0
                                       ELSE page'.uid.value
                    /\ store'[n].file = basename(file.value)
                    /\ store'[n].createdAt = now
                    /\ store'[n].xorKey \in ViewerKeys
                    /\ page'.config.value.dk = toBase64(store'[n].xorKey)
                    /\ page'.config.value.filename = store'[n].file
           /\ page'.status # 200
              => /\ page'.status \in {400, 500}
                 /\ store' = store /\ minted' = minted]_vars

\* Asked by a guest for x/r.pdf, the route has put a second record into
\* the store, for subject 0 and r.pdf.
C33_Witness ==
  /\ page.status = 200 /\ page.uid = NULL
  /\ page.file = Some(<<"x", "/">> \o ReportPdf)
  /\ Cardinality(DOMAIN store) = 2
  /\ page.config.value.nonce \in DOMAIN store
  /\ store[page.config.value.nonce].uid = 0
  /\ store[page.config.value.nonce].file = ReportPdf

FrameArgs == { <<42, ReportPdf, FALSE>> }

GenerateFrame == GenerateWith(FrameArgs, ViewerKeys)

\* The uploads handlers next to the gateway and the Document Store.
NextUploads ==
  \/ GenerateFrame
  \/ UploadRequestWith(RoutePaths, RouteUids)
  \/ MemberKnown
  \/ \E r \in ReqIds : ServeStart(r)
  \/ \E r \in ReqIds : SingleReadDone(r)
  \/ \E r \in ReqIds : DeriveDone(r)

SpecUploads == InitRoutes /\ [][NextUploads]_vars

\* C31: a step of the handlers of /assets/uploads/files/:filename, from the
\* arrival of a request to next() or the 403, changes neither the token
\* store nor the derivative cache.
C31_GateFrame ==
  [][gate' # gate
     => /\ store' = store
        /\ singlePageCache' = singlePageCache]_vars

\* With a record in the token store and a derivative in the cache, after
\* the gateway has sent bytes, the uploads route is between its two
\* isMember answers for a member of 'administrators'.
C31_Witness ==
  /\ DOMAIN store # {} /\ DOMAIN singlePageCache # {}
  /\ gate.pc = "members" /\ gate.isAdmin = Some(TRUE)
  /\ \E r \in ReqIds : reqs[r].pc = "done" /\ reqs[r].res.value.status = 200

\* The first callback of the cache's timer that can find an entry older
\* than CACHE_TTL.
QuietUntil == CACHE_TTL + CACHE_CLEANUP_INTERVAL

\* Nothing arrives until QuietUntil, the token store being empty and no
\* request pending.  The callbacks of the token store's timer on the way,
\* the last of them at the new time, found nothing; those of the cache's
\* timer on the way found no entry older than CACHE_TTL; the one due at the
\* new time is CacheSweep.
Quiet ==
  /\ store = <<>>
  /\ \A r \in ReqIds : reqs[r].pc \in {"new", "done"}
  /\ now < cacheSweepDue
  /\ cacheSweepDue < QuietUntil
  /\ now' = QuietUntil
  /\ sweepDue' = QuietUntil + CLEANUP_INTERVAL
  /\ cacheSweepDue' = QuietUntil
  /\ UNCHANGED <<store, minted, issued, attempted, redeemed, last>>
  /\ UNCHANGED <<reqs, singlePageCache, disk>>
  /\ UNCHANGED <<codecVars, resolverVars, deriveVars, viewerVars, gateVars>>

\* The token store as the program calls it, getKey called directly, the
\* Document Store behind the gateway, and both timers.
NextOwners ==
  \/ GenerateFrame
  \/ GetKey
  \/ Sweep
  \/ Advance
  \/ Quiet
  \/ CacheSweep
  \/ \E r \in ReqIds : ServeStart(r)
  \/ \E r \in ReqIds : SingleReadDone(r)
  \/ \E r \in ReqIds : DeriveDone(r)

SpecOwners == Init /\ [][NextOwners]_vars

\* The texts the routes answer with apart from bytes and the viewer page.
GatewayErrors ==
  {"", "Missing nonce", "Invalid or expired nonce", "PDF not found",
   "Internal error"}
PageTexts ==
  {"", "Missing file parameter", "Invalid file", "Viewer not available",
   "admin/plugins/pdf-secure"}

\* C24: no response of the pdf-data endpoint holds the key of any token, in
\* its bytes or in place of its fixed error texts; the uploads handlers
\* answer with their fixed refusals only; a page of the viewer route holds
\* the key of the token issued for that page, the newest one, and every
\* other page a fixed text; no route calls getKey.
C24_SecretChannel ==
  /\ \A r \in ReqIds :
       reqs[r].res # NULL
       => /\ reqs[r].res.value.error \in GatewayErrors
          /\ \A n \in DOMAIN issued :
               ~includes(reqs[r].res.value.bytes, atob(issued[n].xorKey))
  /\ gate.res \in {NULL, Some(GuardRefusal), Some(GateRefusal)}
  /\ page.config = NULL => page.body \in PageTexts
  /\ page.config # NULL
     => /\ page.config.value.nonce \in DOMAIN issued
        /\ page.config.value.dk = issued[page.config.value.nonce].xorKey
        /\ \A m \in minted : m <= page.config.value.nonce
  /\ last.op # "getKey"

\* Two tokens with different keys: the page shows the key of the second;
\* the first was redeemed for bytes, the second ended in the catch block,
\* and the uploads route has refused a guest.
C24_Witness ==
  /\ \E n \in DOMAIN issued :
       /\ page.config # NULL
       /\ page.config.value.nonce # n
       /\ page.config.value.dk # issued[n].xorKey
  /\ \E r1, r2 \in ReqIds :
       /\ reqs[r1].pc = "done" /\ reqs[r1].res.value.status = 200
       /\ reqs[r2].pc = "done" /\ reqs[r2].err # NULL
  /\ gate.res = Some(GateRefusal)

\* The Document Store behind the gateway: tokens of either entitlement for
\* a file that is there, one without pages, one that is not there and a
\* name the Path Resolver rejects.
StoreDisk == {ReportPdf, EmptyPdf}
StoreArgs ==
  { <<42, ReportPdf, FALSE>>, <<42, EmptyPdf, FALSE>>,
    <<42, GonePdf, FALSE>>, <<42, DotsPdf, FALSE>>,
    <<42, ReportPdf, TRUE>>, <<42, GonePdf, TRUE>>, <<42, DotsPdf, TRUE>> }

GenerateStore == GenerateWith(StoreArgs, ViewerKeys)

InitStore ==
  /\ StoreInit
  /\ CodecOff
  /\ ResolverOff
  /\ DeriveOff
  /\ ViewerInit
  /\ GateOff
  /\ reqs = [r \in ReqIds |-> NewReq]
  /\ singlePageCache = <<>>
  /\ disk = StoreDisk
  /\ cacheSweepDue = CACHE_CLEANUP_INTERVAL

NextStore ==
  \/ GenerateStore
  \/ Unlink
  \/ \E r \in ReqIds : ServeStart(r)
  \/ \E r \in ReqIds : FullReadDone(r)
  \/ \E r \in ReqIds : SingleReadDone(r)
  \/ \E r \in ReqIds : DeriveDone(r)

SpecStore == InitStore /\ [][NextStore]_vars

\* Request r has been through nonceStore.validate.
Validated(r) == reqs[r].pc # "new" /\ reqs[r].nonce # NULL

\* C5: of the requests that carry the same token at most one obtains the
\* record, whatever the interleaving; every other one is answered 403.
C5_AtomicRedemption ==
  \A r1, r2 \in ReqIds :
    /\ r1 # r2 /\ Validated(r1) /\ Validated(r2)
    /\ reqs[r1].nonce = reqs[r2].nonce
    /\ reqs[r1].data # NULL
    => /\ reqs[r2].data = NULL
       /\ reqs[r2].res # NULL
       /\ reqs[r2].res.value.status = 403

\* The winner is still reading the file when the same subject presents the
\* token again and is refused.
C5_Witness ==
  \E r1, r2 \in ReqIds :
    /\ r1 # r2
    /\ reqs[r1].pc = "readFull" /\ reqs[r1].data # NULL
    /\ reqs[r2].pc = "done" /\ reqs[r2].nonce = reqs[r1].nonce
    /\ reqs[r2].uid = reqs[r1].uid
    /\ reqs[r2].res.value.status = 403

\* A request the gateway has answered without a record for its token.
Refused(r) == reqs[r].pc # "new" /\ reqs[r].why # {}

\* C15: a request whose token is unknown, was issued to another subject, is
\* expired or was redeemed before is answered 403, with the same response
\* in each case, and nothing of the Document Store is called for it.
C15_TokenFailuresAlike ==
  /\ \A r \in ReqIds :
       Refused(r)
       => /\ reqs[r].pc = "done"
          /\ reqs[r].res.value.status = 403
          /\ reqs[r].res.value.bytes = <<>>
          /\ reqs[r].fn = "none"
          /\ reqs[r].trace = <<>>
          /\ reqs[r].path = <<>>
  /\ \A r1, r2 \in ReqIds :
       Refused(r1) /\ Refused(r2) => reqs[r1].res = reqs[r2].res

\* One request refused for its subject alone, one for its age alone.
C15_Witness ==
  \E r1, r2 \in ReqIds :
    /\ reqs[r1].pc = "done" /\ reqs[r1].why = {"subject"}
    /\ reqs[r2].pc = "done" /\ reqs[r2].why = {"expired"}
    /\ reqs[r1].res = reqs[r2].res

\* C16: a request without a token is answered 400, and the step that
\* answers it leaves the token store and the derivative cache as they were
\* and calls nothing of the Document Store.
C16_MissingToken ==
  [][\A r \in ReqIds :
       reqs[r].pc = "new" /\ reqs'[r].pc # "new" /\ reqs'[r].nonce = NULL
       => /\ reqs'[r].pc = "done"
          /\ reqs'[r].res.value.status = 400
          /\ reqs'[r].res.value.bytes = <<>>
          /\ store' = store
          /\ singlePageCache' = singlePageCache
          /\ reqs'[r].fn = "none"
          /\ reqs'[r].trace = <<>>
          /\ reqs'[r].path = <<>>]_vars

\* A request without a token answered while the token store and the cache
\* both hold something.
C16_Witness ==
  /\ DOMAIN store # {}
  /\ DOMAIN singlePageCache # {}
  /\ \E r \in ReqIds :
       /\ reqs[r].pc = "done" /\ reqs[r].nonce = NULL
       /\ reqs[r].res.value.status = 400

\* What the browser makes of the bytes request r was sent.
SentPdf(r) ==
  partialXorDecode(reqs[r].res.value.bytes,
                   toBase64(reqs[r].data.value.xorKey))

Answered200(r) ==
  reqs[r].pc = "done" /\ reqs[r].data # NULL /\ reqs[r].res.value.status = 200

\* C17: for a redeemed record the gateway calls getFullPdf exactly when the
\* record's entitlement flag is true and getSinglePagePdf exactly when it is
\* false; what is sent for a restricted record is a document of one page,
\* the first of the file, never the file's bytes.
C17_EntitlementGating ==
  \A r \in ReqIds :
    reqs[r].data # NULL
    => /\ reqs[r].data.value.isPremium <=> reqs[r].fn = "getFullPdf"
       /\ ~reqs[r].data.value.isPremium <=> reqs[r].fn = "getSinglePagePdf"
       /\ Answered200(r) /\ ~reqs[r].data.value.isPremium
          => /\ PdfLoad(SentPdf(r)) # NULL
             /\ PdfLoad(SentPdf(r)).value = <<PdfLoad(ReportBytes).value[1]>>
             /\ SentPdf(r) # ReportBytes

\* The same file sent whole for a full token and as its first page for a
\* restricted one.
C17_Witness ==
  \E r1, r2 \in ReqIds :
    /\ Answered200(r1) /\ reqs[r1].data.value.isPremium
    /\ Answered200(r2) /\ ~reqs[r2].data.value.isPremium
    /\ reqs[r1].data.value.file = reqs[r2].data.value.file
    /\ SentPdf(r1) = ReportBytes
    /\ Len(PdfLoad(SentPdf(r2)).value) = 1

\* Request r was answered from the catch block.
Failed(r) == reqs[r].pc = "done" /\ reqs[r].data # NULL /\ reqs[r].err # NULL

C19_InvalidNameIsClientError ==
  \A r \in ReqIds :
    reqs[r].pc = "done" /\ reqs[r].data # NULL
      /\ resolveFilePath(reqs[r].data.value.file) = NULL
    => reqs[r].res.value.status \in {400, 403}

\* C20: a getSinglePagePdf call for a filename whose derivative was stored
\* less than an hour before returns the stored buffer and makes no call to
\* resolve the path, check the file or read it; the cache is left as it was.
C20_CacheHit ==
  [][\A r \in ReqIds :
       /\ reqs[r].pc = "new" /\ reqs'[r].pc # "new"
       /\ reqs'[r].fn = "getSinglePagePdf"
       /\ reqs'[r].data.value.file \in DOMAIN singlePageCache
       /\ now - singlePageCache[reqs'[r].data.value.file].createdAt
            < 60 * 60 * 1000
       => /\ reqs'[r].trace = <<>>
          /\ reqs'[r].path = <<>>
          /\ reqs'[r].pc = "done"
          /\ reqs'[r].res.value.status = 200
          /\ partialXorDecode(reqs'[r].res.value.bytes,
                              toBase64(reqs'[r].data.value.xorKey))
               = singlePageCache[reqs'[r].data.value.file].buffer
          /\ singlePageCache' = singlePageCache]_vars

\* A derivative stored half an hour ago is sent for a file that is no
\* longer on the disk.
C20_Witness ==
  \E r \in ReqIds :
    /\ Answered200(r)
    /\ reqs[r].fn = "getSinglePagePdf"
    /\ reqs[r].trace = <<>>
    /\ reqs[r].data.value.file \notin disk
    /\ reqs[r].data.value.file \in DOMAIN singlePageCache
    /\ now - singlePageCache[reqs[r].data.value.file].createdAt = CoarseTickMs
    /\ SentPdf(r) = singlePageCache[reqs[r].data.value.file].buffer

\* What a token for a file entitles to: the bytes of the file, or the
\* document made of its first page.
Entitled(file, isPremium) ==
  LET bytes == readFile(InitialDisk, PathJoin(FilesDir, file)).value
  IN IF isPremium THEN bytes ELSE DeriveFirstPage(bytes).value

\* The token request r presented, as it was issued.
TokenOf(r) == issued[reqs[r].nonce.value]

\* C26: the body of a response with bytes, decoded with the key the page
\* was given for the token, is the variant of the file the token entitles
\* to; decoded with a different key of another token it is not.
C26_RoundTrip ==
  \A r \in ReqIds :
    Answered200(r)
    => /\ partialXorDecode(reqs[r].res.value.bytes, TokenOf(r).xorKey)
            = Entitled(TokenOf(r).file, TokenOf(r).isPremium)
       /\ \A n \in DOMAIN issued :
            issued[n].xorKey # TokenOf(r).xorKey
            => partialXorDecode(reqs[r].res.value.bytes, issued[n].xorKey)
                 # Entitled(TokenOf(r).file, TokenOf(r).isPremium)

\* The second request, for the first page, is answered while the first,
\* for the whole file under another token with another key, is still
\* reading.
C26_Witness ==
  \E r1, r2 \in ReqIds :
    /\ r1 < r2
    /\ reqs[r1].pc = "readFull"
    /\ Answered200(r2) /\ ~TokenOf(r2).isPremium
    /\ TokenOf(r1).xorKey # TokenOf(r2).xorKey
    /\ partialXorDecode(reqs[r2].res.value.bytes, TokenOf(r2).xorKey)
         = PdfSave(<<11>>)

\* Request r went through the derivation and was answered with bytes.
Derived(r) ==
  /\ Answered200(r)
  /\ reqs[r].fn = "getSinglePagePdf"
  /\ reqs[r].trace # <<>>

\* C28: every getSinglePagePdf call that is answered with bytes, whatever
\* other calls for the file it overlapped with, is sent the derivative of
\* the file; once a call has gone through the derivation the cache holds
\* for the file that derivative, whole; and the cache never holds anything
\* else.
C28_ConcurrentDerivation ==
  /\ \A r \in ReqIds :
       Answered200(r) /\ reqs[r].fn = "getSinglePagePdf"
       => SentPdf(r) = Entitled(TokenOf(r).file, FALSE)
  /\ \A r \in ReqIds :
       Derived(r)
       => /\ TokenOf(r).file \in DOMAIN singlePageCache
          /\ singlePageCache[TokenOf(r).file].buffer
               = Entitled(TokenOf(r).file, FALSE)
  /\ \A f \in DOMAIN singlePageCache :
       /\ singlePageCache[f].buffer = Entitled(f, FALSE)
       /\ singlePageCache[f].createdAt <= now

\* Two calls for the same file under different tokens have both read the
\* file and derived: neither found the other's entry, so they overlapped.
C28_Witness ==
  \E r1, r2 \in ReqIds :
    /\ r1 # r2
    /\ Derived(r1) /\ Derived(r2)
    /\ TokenOf(r1).file = TokenOf(r2).file
    /\ reqs[r1].nonce # reqs[r2].nonce
    /\ DOMAIN singlePageCache = {TokenOf(r1).file}

\* C29: a getSinglePagePdf call goes without the Path Resolver and the disk
\* exactly when the cache holds an entry for the file that is less than an
\* hour old; otherwise it is sent no bytes before it has read the file, and
\* the step that ends its derivation puts into the cache the derivative of
\* the bytes read, with the time of that step.
C29_CacheFreshness ==
  [][\A r \in ReqIds :
       /\ reqs[r].pc = "new" /\ reqs'[r].fn = "getSinglePagePdf"
          => LET f == reqs'[r].data.value.file
                 fresh == /\ f \in DOMAIN singlePageCache
                          /\ now - singlePageCache[f].createdAt < 60 * 60 * 1000
             IN /\ reqs'[r].trace = <<>> <=> fresh
                /\ ~fresh => reqs'[r].res = NULL \/ reqs'[r].err # NULL
       /\ reqs[r].pc = "derive" /\ reqs'[r].pc = "done"
            /\ reqs'[r].res.value.status = 200
          => /\ reqs[r].data.value.file \in DOMAIN singlePageCache'
             /\ singlePageCache'[reqs[r].data.value.file]
                  = [buffer |-> DeriveFirstPage(reqs[r].bytes).value,
                     createdAt |-> now]]_vars

\* A call has read the file again while the entry for it, exactly an hour
\* old, is still in the cache.
C29_Witness ==
  \E r \in ReqIds :
    /\ reqs[r].pc = "derive"
    /\ reqs[r].data.value.file \in DOMAIN singlePageCache
    /\ now - singlePageCache[reqs[r].data.value.file].createdAt = CACHE_TTL

\* C30: a getFullPdf call, and a getSinglePagePdf call that finds no fresh
\* entry, throws 'Invalid filename' exactly when the Path Resolver rejects
\* the name, having called nothing but the resolver, and 'File not found'
\* exactly when the name is accepted and no such file is there, having
\* called the resolver and then existsSync; and a step in which a
\* getSinglePagePdf call fails changes nothing in the derivative cache.
C30_StoreErrors ==
  [][\A r \in ReqIds :
       /\ reqs[r].pc = "new" /\ reqs'[r].fn # "none"
            /\ ~(/\ reqs'[r].fn = "getSinglePagePdf"
                 /\ reqs'[r].data.value.file \in DOMAIN singlePageCache
                 /\ now - singlePageCache[reqs'[r].data.value.file].createdAt
                      < 60 * 60 * 1000)
          => LET file == reqs'[r].data.value.file
                 rejected == resolveFilePath(file) = NULL
                 invalid == /\ reqs'[r].err # NULL
                            /\ reqs'[r].err.value = "Invalid filename"
                 notFound == /\ reqs'[r].err # NULL
                             /\ reqs'[r].err.value = "File not found"
             IN /\ invalid <=> rejected
                /\ invalid => reqs'[r].trace = <<"resolveFilePath">>
                /\ notFound <=> ~rejected /\ file \notin disk
                /\ notFound
                   => reqs'[r].trace = <<"resolveFilePath", "existsSync">>
       /\ reqs[r].pc # "done" /\ reqs'[r].pc = "done"
            /\ reqs'[r].fn = "getSinglePagePdf" /\ reqs'[r].err # NULL
          => singlePageCache' = singlePageCache]_vars

\* With a derivative in the cache, a getSinglePagePdf call for another file
\* has failed with 'File not found'.
C30_Witness ==
  \E r \in ReqIds :
    /\ reqs[r].pc = "done" /\ reqs[r].fn = "getSinglePagePdf"
    /\ reqs[r].err # NULL /\ reqs[r].err.value = "File not found"
    /\ reqs[r].trace = <<"resolveFilePath", "existsSync">>
    /\ DOMAIN singlePageCache # {}
    /\ reqs[r].data.value.file \notin DOMAIN singlePageCache

\* C34: where a request that redeemed a token was answered from the catch
\* block, the answer is 404 or 500, the token is not in the store and every
\* other request that carried it was refused with 403; and no step of the
\* gateway puts a record into the store.
C34_SpentOnFailure ==
  /\ [](\A r1 \in ReqIds :
          Failed(r1)
          => /\ reqs[r1].res.value.status \in {404, 500}
             /\ reqs[r1].nonce.value \notin DOMAIN store
             /\ \A r2 \in ReqIds \ {r1} :
                  reqs[r2].pc # "new" /\ reqs[r2].nonce = reqs[r1].nonce
                  => /\ reqs[r2].data = NULL
                     /\ reqs[r2].res.value.status = 403)
  /\ [][reqs' # reqs => DOMAIN store' \subseteq DOMAIN store]_vars

\* A token was redeemed for a document without pages and the request ended
\* in 500; the same subject presented it again and was refused.
C34_Witness ==
  \E r1, r2 \in ReqIds :
    /\ Failed(r1) /\ reqs[r1].res.value.status = 500
    /\ reqs[r1].data.value.file = EmptyPdf
    /\ reqs[r2].pc = "done" /\ reqs[r2].nonce = reqs[r1].nonce
    /\ reqs[r2].uid = reqs[r1].uid
    /\ reqs[r2].res.value.status = 403

\* C35: a request redeems for subject 0 exactly when it carries no uid or
\* the uid 0; where it presents a token that is in the store for subject 0,
\* such a request is given the record if the token is no older than
\* NONCE_TTL, and a request with another uid is refused with 403; either
\* way the token is out of the store afterwards.
C35_AnonymousSubject ==
  [][\A r \in ReqIds :
       reqs[r].pc = "new" /\ reqs'[r].pc # "new" /\ reqs'[r].nonce # NULL
       => LET n == reqs'[r].nonce.value
              anonymous == reqs'[r].reqUid \in {NULL, Some(0)}
          IN /\ anonymous <=> reqs'[r].uid = 0
             /\ n \in DOMAIN store /\ store[n].uid = 0
                => /\ n \notin DOMAIN store'
                   /\ anonymous /\ now - store[n].createdAt <= 30 * 1000
                      => reqs'[r].data = Some(store[n])
                   /\ ~anonymous
                      => /\ reqs'[r].data = NULL
                         /\ reqs'[r].res.value.status = 403]_vars

\* Two tokens issued to subject 0 have been redeemed, one by a request
\* without a uid and one by a request with the uid 0.
C35_Witness ==
  \E r1, r2 \in ReqIds :
    /\ reqs[r1].reqUid = NULL /\ reqs[r1].data # NULL
    /\ reqs[r1].data.value.uid = 0
    /\ reqs[r2].reqUid = Some(0) /\ reqs[r2].data # NULL
    /\ reqs[r2].data.value.uid = 0
    /\ reqs[r1].nonce # reqs[r2].nonce

\* C36: a buffer in the derivative cache is the first-page document of its
\* file, whatever has been sent since it was put there, and no step changes
\* the buffer of an entry; a first-page request answered with bytes was
\* sent partialXorEncode of that document under the key of its own token.
C36_InputUntouched ==
  /\ [](/\ \A f \in DOMAIN singlePageCache :
             singlePageCache[f].buffer = Entitled(f, FALSE)
        /\ \A r \in ReqIds :
             Answered200(r) /\ reqs[r].fn = "getSinglePagePdf"
             => reqs[r].res.value.bytes
                  = partialXorEncode(Entitled(reqs[r].data.value.file, FALSE),
                                     reqs[r].data.value.xorKey))
  /\ [][\A f \in DOMAIN singlePageCache :
          /\ f \in DOMAIN singlePageCache'
          /\ singlePageCache'[f].buffer = singlePageCache[f].buffer]_vars

\* Two first-page requests for r.pdf under tokens with different keys, the
\* second answered from the cache, were sent different bytes.
C36_Witness ==
  \E r1, r2 \in ReqIds :
    /\ Derived(r1)
    /\ Answered200(r2) /\ reqs[r2].fn = "getSinglePagePdf"
    /\ reqs[r2].trace = <<>>
    /\ reqs[r1].data.value.file = reqs[r2].data.value.file
    /\ reqs[r1].data.value.xorKey # reqs[r2].data.value.xorKey
    /\ reqs[r1].res.value.bytes # reqs[r2].res.value.bytes
    /\ singlePageCache[reqs[r2].data.value.file].buffer = PdfSave(<<11>>)

\* The stages of a request that is answered with bytes.
Chain ==
  <<"RECEIVED", "TOKEN_VALIDATED", "CONTENT_RESOLVED", "TRANSFORMED", "SENT">>

\* C25: a request not yet answered has gone through the first stages of the
\* chain in order and has no response; an answered one has gone through
\* the whole chain and holds the bytes, or through the first stages of it
\* and then to one error response; and the Document Store is called only
\* for a request whose token was redeemed.
C25_StepOrder ==
  \A r \in ReqIds :
    /\ reqs[r].pc = "new" => reqs[r].log = <<>> /\ reqs[r].res = NULL
    /\ reqs[r].pc \notin {"new", "done"}
       => reqs[r].log = SubSeq(Chain, 1, 2) /\ reqs[r].res = NULL
    /\ reqs[r].pc = "done"
       => /\ reqs[r].res # NULL
          /\ \/ reqs[r].log = Chain /\ reqs[r].res.value.status = 200
             \/ /\ \E k \in 1..4 :
                      reqs[r].log = Append(SubSeq(Chain, 1, k), "ERROR")
                /\ reqs[r].res.value.status # 200
                /\ reqs[r].res.value.bytes = <<>>
    /\ reqs[r].fn # "none" \/ reqs[r].trace # <<>> \/ reqs[r].path # <<>>
       => /\ reqs[r].data # NULL
          /\ Len(reqs[r].log) >= 2 /\ reqs[r].log[2] = "TOKEN_VALIDATED"
          /\ reqs[r].nonce.value \in redeemed

\* One request through the whole chain by way of a derivation, one that
\* left it after its token was redeemed.
C25_Witness ==
  \E r1, r2 \in ReqIds :
    /\ reqs[r1].log = Chain
    /\ reqs[r1].trace = <<"resolveFilePath", "existsSync", "readFile">>
    /\ reqs[r1].fn = "getSinglePagePdf"
    /\ reqs[r2].log = <<"RECEIVED", "TOKEN_VALIDATED", "ERROR">>

\* The bytes are those of a document without pages.
NoPages(bytes) == PdfLoad(bytes) # NULL /\ Len(PdfLoad(bytes).value) = 0

\* C22: where the source read is a document without pages, the step that
\* ends the derivation answers 500 from the catch block, sends no bytes and
\* leaves the derivative cache as it was.
C22_ZeroPageSource ==
  [][\A r \in ReqIds :
       reqs[r].pc = "derive" /\ NoPages(reqs[r].bytes) /\ reqs'[r].pc # "derive"
       => /\ reqs'[r].pc = "done"
          /\ reqs'[r].err # NULL
          /\ reqs'[r].res.value.status = 500
          /\ reqs'[r].res.value.bytes = <<>>
          /\ singlePageCache' = singlePageCache]_vars

\* A request for the document without pages answered 500, nothing cached
\* for it, while the derivative of another file is cached.
C22_Witness ==
  /\ \E r \in ReqIds :
       /\ reqs[r].pc = "done" /\ reqs[r].data # NULL
       /\ reqs[r].data.value.file = EmptyPdf
       /\ NoPages(reqs[r].bytes)
       /\ reqs[r].res.value.status = 500
  /\ EmptyPdf \notin DOMAIN singlePageCache
  /\ ReportPdf \in DOMAIN singlePageCache

\* ------------------------------------------------------ codec on its own
\* Buffer lengths around the 10 KiB limit and the stride.
CodecLens ==
  { 0, 1, XOR_KEY_BYTES + 1, FULL_ENCRYPT_LEN - 1, FULL_ENCRYPT_LEN,
    FULL_ENCRYPT_LEN + 1, FULL_ENCRYPT_LEN + STRIDE,
    FULL_ENCRYPT_LEN + STRIDE + 1, FULL_ENCRYPT_LEN + 3 * STRIDE + 7 }

\* The buffer of length n filled from seed s.
SeedBuffer(n, s) == [p \in 1..n |-> (p * (2 * s + 1) + 83 * s) % 256]

CodecBuffers == {SeedBuffer(n, s) : n \in CodecLens, s \in 0..MaxSeed}

\* Non-empty keys: the 8-byte keys of the token store, and other lengths.
CodecKeys == XorKeys \cup { <<90>>, <<7, 0, 200>> }

InitCodec ==
  /\ StoreInit
  /\ GatewayInit
  /\ ViewerInit
  /\ GateOff
  /\ ResolverOff
  /\ DeriveOff
  /\ cStage = "input"
  /\ cBuffer \in CodecBuffers
  /\ cKey \in CodecKeys
  /\ cOnce = <<>>
  /\ cTwice = <<>>
  /\ cDecoded = <<>>

Encode ==
  /\ cStage = "input"
  /\ cOnce' = partialXorEncode(cBuffer, cKey)
  /\ cStage' = "encoded"
  /\ UNCHANGED <<cBuffer, cKey, cTwice, cDecoded>>
  /\ UNCHANGED <<storeVars, resolverVars, deriveVars, gatewayVars, viewerVars, gateVars>>

EncodeAgain ==
  /\ cStage = "encoded"
  /\ cTwice' = partialXorEncode(cOnce, cKey)
  /\ cStage' = "twice"
  /\ UNCHANGED <<cBuffer, cKey, cOnce, cDecoded>>
  /\ UNCHANGED <<storeVars, resolverVars, deriveVars, gatewayVars, viewerVars, gateVars>>

\* The browser decodes the bytes it was sent with the key of the page.
Decode ==
  /\ cStage = "encoded"
  /\ cDecoded' = partialXorDecode(cOnce, toBase64(cKey))
  /\ cStage' = "decoded"
  /\ UNCHANGED <<cBuffer, cKey, cOnce, cTwice>>
  /\ UNCHANGED <<storeVars, resolverVars, deriveVars, gatewayVars, viewerVars, gateVars>>

NextCodec ==
  \/ Encode
  \/ EncodeAgain
  \/ Decode

SpecCodec == InitCodec /\ [][NextCodec]_vars

\* C10: encoding a buffer twice with the same non-empty key gives the
\* buffer back.
C10_CodecInvolution == cStage = "twice" => cTwice = cBuffer

\* A buffer that reaches past the first stride, changed in the fully
\* encoded part and at a strided byte by the first pass.
C10_Witness ==
  /\ cStage = "twice"
  /\ Len(cBuffer) > FULL_ENCRYPT_LEN + STRIDE
  /\ cOnce[1] # cBuffer[1]
  /\ cOnce[FULL_ENCRYPT_LEN + STRIDE + 1] # cBuffer[FULL_ENCRYPT_LEN + STRIDE + 1]
  /\ cOnce[FULL_ENCRYPT_LEN + 2] = cBuffer[FULL_ENCRYPT_LEN + 2]

\* --------------------------------------------------- resolver on its own
\* The characters filenames are made of: the separator, the dot, a letter.
NameChars == {"/", ".", "r"}

\* Every filename of at most MaxNameLen characters.
Filenames == UNION {[1..n -> NameChars] : n \in 0..MaxNameLen}

InitResolver ==
  /\ StoreInit
  /\ GatewayInit
  /\ ViewerInit
  /\ GateOff
  /\ CodecOff
  /\ DeriveOff
  /\ pStage = "input"
  /\ pName \in Filenames
  /\ pResult = NULL

Resolve ==
  /\ pStage = "input"
  /\ pResult' = resolveFilePath(pName)
  /\ pStage' = "resolved"
  /\ UNCHANGED pName
  /\ UNCHANGED <<storeVars, codecVars, deriveVars, gatewayVars, viewerVars, gateVars>>

NextResolver == Resolve

SpecResolver == InitResolver /\ [][NextResolver]_vars

HasSeparator(name) == \E i \in 1..Len(name) : name[i] = "/"

HasParentSegment(name) ==
  \E i \in 1..Len(Split(name)) : Split(name)[i] = <<".", ".">>

\* C13: resolveFilePath returns null for the empty filename and for every
\* filename that holds a path separator or a parent-directory segment.
C13_TraversalRejected ==
  pStage = "resolved"
    /\ (pName = <<>> \/ HasSeparator(pName) \/ HasParentSegment(pName))
  => pResult = NULL

\* A name that climbs out of the root and back down.
C13_Witness ==
  /\ pStage = "resolved"
  /\ HasSeparator(pName) /\ HasParentSegment(pName)
  /\ basename(pName) = <<"r">>
  /\ pResult = NULL

\* Whether a path, made canonical, is the files root or lies below it.
WithinFilesRoot(path) ==
  LET canonical == PathResolve(path)
      root == PathResolve(FilesDir)
  IN canonical = root \/ startsWith(canonical, root \o <<"/">>)

\* C14: the canonical form of every path resolveFilePath returns lies
\* within the canonical files root.
C14_Containment ==
  pStage = "resolved" /\ pResult # NULL => WithinFilesRoot(pResult.value)

\* An accepted name with a dot in it, resolved to a child of the root.
C14_Witness ==
  /\ pStage = "resolved"
  /\ pResult # NULL
  /\ includes(pName, <<".">>)
  /\ pResult.value = FilesDir \o <<"/">> \o pName

\* C38 as stated: the canonical form of every path resolveFilePath returns
\* lies strictly below the canonical files root and is never the root
\* itself.  The filename '.' is accepted and resolves to the root.
C38_StrictlyBelowRoot ==
  pStage = "resolved" /\ pResult # NULL
  => /\ PathResolve(pResult.value) # PathResolve(FilesDir)
     /\ startsWith(PathResolve(pResult.value),
                   PathResolve(FilesDir) \o <<"/">>)

\* C11: the encoded copy has the length of the buffer; byte i is the
\* buffer's byte XORed with key byte i mod len(key) for every i below 10240
\* and for every i from 10240 on with i - 10240 divisible by 50, the key
\* indexed by the absolute offset; every other byte is the buffer's.
C11_CodecCoverage ==
  cStage # "input" /\ cStage # "off"
  => /\ Len(cOnce) = Len(cBuffer)
     /\ \A i \in 0..(Len(cBuffer) - 1) :
          cOnce[i + 1] =
            IF i < 10240 \/ (i >= 10240 /\ (i - 10240) % 50 = 0)
            THEN BitXor(cBuffer[i + 1], cKey[(i % Len(cKey)) + 1])
            ELSE cBuffer[i + 1]

\* A key of three bytes and a strided byte past 10 KiB, where the absolute
\* offset and an offset counted from 10240 select different key bytes.
C11_Witness ==
  /\ cStage = "encoded"
  /\ Len(cKey) = 3
  /\ Len(cBuffer) > FULL_ENCRYPT_LEN + STRIDE
  /\ cOnce[FULL_ENCRYPT_LEN + STRIDE + 1] # cBuffer[FULL_ENCRYPT_LEN + STRIDE + 1]
  /\ cKey[((FULL_ENCRYPT_LEN + STRIDE) % 3) + 1] # cKey[(STRIDE % 3) + 1]
  /\ cOnce[FULL_ENCRYPT_LEN + STRIDE] = cBuffer[FULL_ENCRYPT_LEN + STRIDE]

\* C12: partialXorDecode, given the encoded bytes and the base64 text of
\* the key, returns the buffer that was encoded; on any buffer it computes
\* what partialXorEncode computes with the key itself.
C12_DecoderMatchesEncoder ==
  cStage = "decoded"
  => /\ cDecoded = cBuffer
     /\ partialXorDecode(cBuffer, toBase64(cKey)) = cOnce

\* A buffer past the first stride, decoded with a key whose base64 text is
\* padded, after the encoder changed a strided byte.
C12_Witness ==
  /\ cStage = "decoded"
  /\ Len(cBuffer) > FULL_ENCRYPT_LEN + STRIDE
  /\ Len(cKey) = XOR_KEY_BYTES
  /\ toBase64(cKey)[Len(toBase64(cKey))] = "="
  /\ cOnce[FULL_ENCRYPT_LEN + STRIDE + 1] # cBuffer[FULL_ENCRYPT_LEN + STRIDE + 1]
  /\ cDecoded[FULL_ENCRYPT_LEN + STRIDE + 1] = cBuffer[FULL_ENCRYPT_LEN + STRIDE + 1]

\* ------------------------------------------------- derivation on its own
\* The pages source documents are made of.
PageBytes == {11, 22, 33}

\* Every document of at most MaxPages pages, as the bytes of its file, and
\* a file that is not a PDF.
SourceFiles ==
  {PdfSave(pages) : pages \in UNION {[1..n -> PageBytes] : n \in 0..MaxPages}}
    \cup {BadBytes}

InitDerive ==
  /\ StoreInit
  /\ GatewayInit
  /\ ViewerInit
  /\ GateOff
  /\ CodecOff
  /\ ResolverOff
  /\ dStage = "input"
  /\ dSource \in SourceFiles
  /\ dDerived = NULL

\* getSinglePagePdf from the bytes read to the buffer it caches and returns.
Derive ==
  /\ dStage = "input"
  /\ dDerived' = DeriveFirstPage(dSource)
  /\ dStage' = "derived"
  /\ UNCHANGED dSource
  /\ UNCHANGED <<storeVars, codecVars, resolverVars, gatewayVars, viewerVars, gateVars>>

NextDerive == Derive

SpecDerive == InitDerive /\ [][NextDerive]_vars

\* C21: from a source document of one page or more the derivation gives a
\* document of exactly one page, equal to the source's page at index 0.
C21_FirstPageOnly ==
  dStage = "derived" /\ PdfLoad(dSource) # NULL
    /\ Len(PdfLoad(dSource).value) >= 1
  => /\ dDerived # NULL
     /\ PdfLoad(dDerived.value) # NULL
     /\ Len(PdfLoad(dDerived.value).value) = 1
     /\ PdfLoad(dDerived.value).value[1] = PdfLoad(dSource).value[1]

\* A source of MaxPages pages whose first page differs from the others.
C21_Witness ==
  /\ dStage = "derived"
  /\ PdfLoad(dSource) # NULL
  /\ Len(PdfLoad(dSource).value) = MaxPages
  /\ \A i \in 2..MaxPages : PdfLoad(dSource).value[i] # PdfLoad(dSource).value[1]
  /\ dDerived = Some(PdfSave(<<PdfLoad(dSource).value[1]>>))

\* ------------------------------------------------- token store properties
\* The age of token n at the time of the last call, from generate's own clock.
AgeAtLast(n) == last.at - issued[n].at

LastValidate == last.op = "validate"

\* C1: once a validate call on a token has returned a record, every later
\* validate call on that token returns null, whatever uid is passed; so a
\* token yields a record at most once.
C1_SingleUse == LastValidate /\ last.spent => last.result = NULL

C1_Witness ==
  /\ LastValidate /\ last.spent
  /\ last.uid = issued[last.nonce].uid
  /\ AgeAtLast(last.nonce) <= NONCE_TTL
  /\ last.result = NULL

\* C2: a validate call made when more than NONCE_TTL has elapsed since the
\* token's creation returns null.
C2_Expiry ==
  LastValidate /\ last.nonce \in DOMAIN issued
    /\ AgeAtLast(last.nonce) > NONCE_TTL
  => last.result = NULL

\* First attempt, matching subject, record not yet swept, TTL exceeded.
C2_Witness ==
  /\ LastValidate /\ ~last.again
  /\ last.nonce \in DOMAIN last.pre
  /\ last.uid = issued[last.nonce].uid
  /\ AgeAtLast(last.nonce) > NONCE_TTL
  /\ last.result = NULL

\* C3: validate returns a record only if the token is in the store, the uid
\* is the one it was issued to and its age does not exceed NONCE_TTL.
C3_SubjectBinding ==
  LastValidate /\ last.result # NULL
  => /\ last.nonce \in DOMAIN last.pre
     /\ last.uid = issued[last.nonce].uid
     /\ AgeAtLast(last.nonce) <= NONCE_TTL

\* A stored, fresh token presented by another subject.
C3_Witness ==
  /\ LastValidate
  /\ last.nonce \in DOMAIN last.pre
  /\ last.uid # issued[last.nonce].uid
  /\ AgeAtLast(last.nonce) <= NONCE_TTL
  /\ last.result = NULL

\* C4: after any validate call on a token, the token is absent from the
\* store, and a later validate on it returns null.
C4_DestroyedOnFirstAttempt ==
  /\ \A n \in attempted : n \notin DOMAIN store
  /\ LastValidate /\ last.again => last.result = NULL

\* A failed first attempt, then the issuing subject within the TTL.
C4_Witness ==
  /\ LastValidate /\ last.again /\ ~last.spent
  /\ last.uid = issued[last.nonce].uid
  /\ AgeAtLast(last.nonce) <= NONCE_TTL
  /\ last.result = NULL

\* C6: the first validate on an issued token, by the subject it was issued
\* to and within NONCE_TTL, returns the record generate was given, whose
\* xorKey is the byte string the returned base64 key decodes to.
C6_IssueThenRedeem ==
  LastValidate /\ ~last.again /\ last.nonce \in DOMAIN issued
    /\ last.uid = issued[last.nonce].uid
    /\ AgeAtLast(last.nonce) <= NONCE_TTL
  => /\ last.result # NULL
     /\ last.result.value.uid = issued[last.nonce].uid
     /\ last.result.value.file = issued[last.nonce].file
     /\ last.result.value.isPremium = issued[last.nonce].isPremium
     /\ last.result.value.xorKey = atob(issued[last.nonce].xorKey)

\* Redeemed at the very end of its lifetime.
C6_Witness ==
  /\ LastValidate /\ ~last.again /\ last.nonce \in DOMAIN issued
  /\ last.uid = issued[last.nonce].uid
  /\ AgeAtLast(last.nonce) = NONCE_TTL
  /\ last.result # NULL

\* The time the sweep last ran (the module was loaded at time 0).
LastSweep == sweepDue - CLEANUP_INTERVAL

\* C7 as stated: the store never holds a record that was redeemed or whose
\* age exceeds NONCE_TTL.
C7_NoExpiredRecordStored ==
  \A n \in DOMAIN store :
    n \notin redeemed /\ now - store[n].createdAt <= NONCE_TTL

\* C7 amended: the store never holds a record that was redeemed, nor one
\* that was already older than NONCE_TTL when the sweep last ran.
C7_PurgedBySweepOrAttempt ==
  \A n \in DOMAIN store :
    n \notin redeemed /\ LastSweep - store[n].createdAt <= NONCE_TTL

\* After a sweep, a record that has outlived its TTL waits for the next one.
C7_Witness ==
  /\ LastSweep > 0
  /\ \E n \in DOMAIN store : now - store[n].createdAt > NONCE_TTL

\* C8: right after a sweep the store holds exactly the records of before
\* whose age does not exceed NONCE_TTL, unchanged.
C8_SweepEffect ==
  last.op = "sweep"
  => /\ \A n \in DOMAIN store : last.at - store[n].createdAt <= NONCE_TTL
     /\ \A n \in DOMAIN last.pre :
          last.at - last.pre[n].createdAt <= NONCE_TTL
          => n \in DOMAIN store /\ store[n] = last.pre[n]

\* A sweep that met an expired record and one exactly NONCE_TTL old.
C8_Witness ==
  /\ last.op = "sweep"
  /\ \E n \in DOMAIN last.pre : last.at - last.pre[n].createdAt > NONCE_TTL
  /\ \E n \in DOMAIN last.pre : last.at - last.pre[n].createdAt = NONCE_TTL

\* C9: getKey leaves the store as it was, returns null for a token not in
\* the store and otherwise the base64 key generate returned for the token.
C9_PeekDoesNotConsume ==
  last.op = "getKey"
  => /\ store = last.pre
     /\ last.nonce \notin DOMAIN last.pre => last.result = NULL
     /\ last.nonce \in DOMAIN last.pre
        => last.result = Some(issued[last.nonce].xorKey)

\* A peek at a stored token that a sweep has passed over.
C9_Witness ==
  /\ last.op = "getKey"
  /\ last.nonce \in DOMAIN store
  /\ last.result # NULL
  /\ LastSweep > 0

\* C37: getKey returns a key exactly when the record of the token is in
\* the store, whatever the record's age, and then the base64 of the key in
\* that record; for a token validate has been called on, and for a token
\* handed out earlier that is no longer in the store, it returns null.
C37_PeekIgnoresAge ==
  last.op = "getKey"
  => /\ last.result # NULL <=> last.nonce \in DOMAIN last.pre
     /\ last.result # NULL
        => last.result.value = toBase64(last.pre[last.nonce].xorKey)
     /\ last.nonce \in attempted => last.result = NULL
     /\ last.nonce \in minted /\ last.nonce \notin DOMAIN store
        => last.result = NULL

\* A peek at a record older than NONCE_TTL, before the next sweep is due,
\* was given the key.
C37_Witness ==
  /\ last.op = "getKey"
  /\ last.nonce \in DOMAIN last.pre
  /\ last.at - last.pre[last.nonce].createdAt > NONCE_TTL
  /\ sweepDue > last.at
  /\ last.result = Some(issued[last.nonce].xorKey)

\* C40: no step alters a record that stays in the store; a generate adds
\* one record, under the id it was handed, which was not in the store, and
\* removes none, and no other step adds one; getKey leaves the store as it
\* was; a request's validate removes at most the record of the token it
\* carries; the steps of the Document Store after its first await, its set
\* and its sweep leave the token store as it was; and a step that calls
\* the token store or fires its timer leaves the derivative cache as it was.
C40_StoreFrame ==
  [][LET added == DOMAIN store' \ DOMAIN store
         removed == DOMAIN store \ DOMAIN store'
     IN /\ \A m \in DOMAIN store \cap DOMAIN store' : store'[m] = store[m]
        /\ minted' # minted
           => /\ removed = {}
              /\ \E n \in minted' \ minted :
                   n \notin DOMAIN store /\ added = {n}
        /\ minted' = minted => added = {}
        /\ last' # last /\ last'.op = "getKey" => store' = store
        /\ \A r \in ReqIds :
             /\ reqs[r].pc = "new" /\ reqs'[r].pc # "new"
                => removed \subseteq
                     (IF reqs'[r].nonce = NULL THEN {}
                      ELSE {reqs'[r].nonce.value})
             /\ reqs[r].pc \in {"readFull", "readSingle", "derive"}
                  /\ reqs'[r] # reqs[r]
                => store' = store
        /\ singlePageCache' # singlePageCache => store' = store
        /\ store' # store \/ last' # last \/ sweepDue' # sweepDue
           => singlePageCache' = singlePageCache]_vars

\* After a derivation the cache's sweep has dropped the entry, an hour and
\* ten minutes on, while the token store held a record whose key getKey
\* had just been asked for.
C40_Witness ==
  /\ \E r \in ReqIds : Derived(r)
  /\ singlePageCache = <<>>
  /\ now = QuietUntil /\ cacheSweepDue > now
  /\ DOMAIN store # {}
  /\ last.op = "getKey" /\ last.result # NULL /\ last.at = now

====
